---- MODULE Spec2Model ----
(***************************************************************************)
(* A model of the simple-smtp client session (src/src/smtp.rs): the        *)
(* in-place multi-line reply reader, the Reply iterators, the command      *)
(* sequencer and the dot-stuffing body writer.                             *)
(*                                                                         *)
(* Bytes are integers 0..255 and byte strings are sequences of bytes.      *)
(* Buffer indices are 0-based as in the source; B(s, i) reads index i.     *)
(***************************************************************************)
EXTENDS Integers, Sequences, FiniteSets, TLC

VARIABLES
    buf,          \* Smtp::buf, the session buffer (its length is the capacity)
    unprocessed,  \* Smtp::buf_unprocessed, [start, end]
    pc,           \* where the caller is: "idle", "reading" (suspended in stream.read), "done", "panicked"
    cmd,          \* the command method in flight
    args,         \* its arguments
    step,         \* the reply the command is waiting for: "REPLY", "MAIL", "RCPT", "DATA", "EOD"
    rcpt,         \* send_mail / send_message: recipients already written
    rl,           \* locals of read_line / read_multiline_reply across suspensions
    result,       \* what the command returned
    io,           \* transcript of the command in flight: writes and completed replies
    raw,          \* bytes the stream deposited since read_multiline_reply reset the range
    stream,       \* the transport: [eof], and the server's partial line, lines sent, reply finished
    env,          \* the environment: [mode] of the server and caller, [calls] commands issued,
                  \* [fault] injected, bytes [lost] at a return, [reads] of the stream in a call
    body,         \* body writer alone: the body
    out,          \* body writer alone: the bytes written
    dpc,          \* body writer alone: "start" or "done"
    wm,           \* TokioIo::write_multi alone: its argument, locals and the transport
    ex,           \* Extensions::from_str alone: the line and the value parsed
    eh,           \* EhloResponse::supports alone: the reply lines, the query, the answer
    ll            \* long reply lines: the reply in runs of characters, the Reply and its iteration

vars == <<buf, unprocessed, pc, cmd, args, step, rcpt, rl, result, io, raw, stream, env,
          body, out, dpc, wm, ex, eh, ll>>
sessionVars == <<buf, unprocessed, pc, cmd, args, step, rcpt, rl, result, io, raw, stream, env>>
dotVars == <<body, out, dpc>>
pureVars == <<wm, ex, eh, ll>>

----------------------------------------------------------------------------
(* Byte values used by the source. *)
CR == 13
LF == 10
SP == 32
DASH == 45
DOT == 46
PLUS == 43
ZERO == 48
NINE == 57
NUL == 0
(* Bytes the environment uses that the source does not name. *)
LetterA == 97
LetterX == 120
BadByte == 255

(* Bounds of the model. *)
BufCap == 13
MaxLines == 3
MaxText == 1
MaxChunk == 3
MaxRcpt == 2
MaxBody == 6

----------------------------------------------------------------------------
(* Sequence helpers (0-based half-open slices, as Rust's s[a..b]). *)
B(s, i) == s[i + 1]
Slice(s, a, b) == SubSeq(s, a + 1, b)
Zeros(n) == [i \in 1..n |-> 0]
Min(a, b) == IF a < b THEN a ELSE b

RECURSIVE Concat(_)
Concat(ss) == IF ss = <<>> THEN <<>> ELSE Head(ss) \o Concat(Tail(ss))

(* s with the bytes of w written at 0-based offset a. *)
WriteAt(s, a, w) ==
    [i \in 1..Len(s) |-> IF i > a /\ i <= a + Len(w) THEN w[i - a] ELSE s[i]]

(* Variant: the high byte is stored first.                                  *)
U16ToBeBytes(v) == <<(v \div 256) % 256, v % 256>>

(* u16::to_ne_bytes / u16::from_ne_bytes, on a little-endian host. *)
U16ToNeBytes(v) == <<v % 256, (v \div 256) % 256>>
(* Variant: the two bytes are read in the other order.                      *)
U16FromBeBytes(lo, hi) == 256 * lo + hi

U16FromNeBytes(lo, hi) == lo + 256 * hi
(* `len as u16` *)
AsU16(n) == n % 65536

----------------------------------------------------------------------------
(* core::str::from_utf8: whether the bytes are well-formed UTF-8. *)
IsCont(x) == x >= 128 /\ x <= 191

RECURSIVE Utf8Valid(_)
Utf8Valid(s) ==
    IF s = <<>> THEN TRUE
    ELSE LET x == s[1]
             n == Len(s) IN
         IF x < 128 THEN Utf8Valid(Tail(s))
         ELSE IF x >= 194 /\ x <= 223
              THEN n >= 2 /\ IsCont(s[2]) /\ Utf8Valid(SubSeq(s, 3, n))
         ELSE IF x >= 224 /\ x <= 239
              THEN /\ n >= 3
                   /\ IsCont(s[2]) /\ IsCont(s[3])
                   /\ (x = 224 => s[2] >= 160)
                   /\ (x = 237 => s[2] <= 159)
                   /\ Utf8Valid(SubSeq(s, 4, n))
         ELSE IF x >= 240 /\ x <= 244
              THEN /\ n >= 4
                   /\ IsCont(s[2]) /\ IsCont(s[3]) /\ IsCont(s[4])
                   /\ (x = 240 => s[2] >= 144)
                   /\ (x = 244 => s[2] <= 143)
                   /\ Utf8Valid(SubSeq(s, 5, n))
         ELSE FALSE

IsDigit(x) == x >= ZERO /\ x <= NINE

(* from_utf8(3 bytes).map(str::parse::<u16>): the value, or -1 for an error.   *)
(* u16::from_str accepts an optional leading '+' before at least one digit.    *)
ParseCode(b) ==
    IF IsDigit(b[1]) /\ IsDigit(b[2]) /\ IsDigit(b[3])
    THEN 100 * (b[1] - ZERO) + 10 * (b[2] - ZERO) + (b[3] - ZERO)
    ELSE IF b[1] = PLUS /\ IsDigit(b[2]) /\ IsDigit(b[3])
    THEN 10 * (b[2] - ZERO) + (b[3] - ZERO)
    ELSE -1

----------------------------------------------------------------------------
(* Results. *)
NoResult == [kind |-> "None", err |-> "", a |-> 0, b |-> 0, name |-> ""]
Ok == [kind |-> "Ok", err |-> "", a |-> 0, b |-> 0, name |-> ""]
Err(e) == [kind |-> "Err", err |-> e, a |-> 0, b |-> 0, name |-> ""]
Err2(e, x, y) == [kind |-> "Err", err |-> e, a |-> x, b |-> y, name |-> ""]
UnexpectedCode(expected, actual) == Err2("UnexpectedCode", expected, actual)

(* Variant: the stream's error is reported as the end of the stream.        *)
IoErrorAsEof(e) == Err("UnexpectedEof")

(* Error::IoError(e): the stream's own error value e, carried as it is.     *)
IoError(e) == Err2("IoError", e, 0)
CodeChanged(old, new) == Err2("CodeChanged", old, new)

----------------------------------------------------------------------------
(* The reader.  A reader state p carries the buffer, the unprocessed range  *)
(* and the locals of read_line / read_multiline_reply; p.st is "run",       *)
(* "need" (suspended in fill_buffer), "line" (read_line returned Ok),       *)
(* "ok" (read_multiline_reply returned Ok) or "err".                        *)

RlInit == [stage |-> "code", code |-> 0, is_last |-> FALSE, expected_code |-> 0, first |-> TRUE]

Reader(b, u, l) ==
    [buf |-> b, start |-> u.start, end |-> u.end, stage |-> l.stage, code |-> l.code,
     is_last |-> l.is_last, expected_code |-> l.expected_code, first |-> l.first,
     st |-> "run", res |-> NoResult]

(* The locals of a reader state, kept across a suspension.                  *)
Locals(p) ==
    [stage |-> p.stage, code |-> p.code, is_last |-> p.is_last,
     expected_code |-> p.expected_code, first |-> p.first]

Fail(p, r) == [p EXCEPT !.st = "err", !.res = r]
Need(p) == [p EXCEPT !.st = "need"]

(* Variant: a CR that is the last byte received is taken for a bare CR.    *)
RECURSIVE ScanTerminatorEager(_, _, _, _)
ScanTerminatorEager(b, start, end, idx) ==
    IF start + idx >= end THEN [kind |-> "none", idx |-> idx]
    ELSE LET c == B(b, start + idx) IN
         IF c = CR
         THEN IF start + idx + 1 >= end THEN [kind |-> "err", idx |-> idx]
              ELSE IF B(b, start + idx + 1) = LF THEN [kind |-> "found", idx |-> idx]
              ELSE [kind |-> "err", idx |-> idx]
         ELSE IF c = LF THEN [kind |-> "err", idx |-> idx]
         ELSE ScanTerminatorEager(b, start, end, idx + 1)

(* buffer_contains_terminator: scans buf[start..end) from offset idx.       *)
RECURSIVE ScanTerminator(_, _, _, _)
ScanTerminator(b, start, end, idx) ==
    IF start + idx >= end THEN [kind |-> "none", idx |-> idx]
    ELSE LET c == B(b, start + idx) IN
         IF c = CR
         THEN IF start + idx + 1 >= end THEN [kind |-> "none", idx |-> idx]
              ELSE IF B(b, start + idx + 1) = LF THEN [kind |-> "found", idx |-> idx]
              ELSE [kind |-> "err", idx |-> idx]
         ELSE IF c = LF THEN [kind |-> "err", idx |-> idx]
         ELSE ScanTerminator(b, start, end, idx + 1)

buffer_contains_terminator(b, start, end) == ScanTerminator(b, start, end, 0)

(* Variant: the text length is not written in front of the text.            *)
write_no_len_header(p, t) ==
    IF t.kind = "err" THEN Fail(p, Err("InvalidLineTermination"))
    ELSE IF t.kind = "none" THEN Need(p)
    ELSE [p EXCEPT !.start = p.start + t.idx + 2, !.st = "line"]

(* Variant: a bare CR or LF is taken for text and the scan waits for CRLF.  *)
write_len_header_lenient(p, t) ==
    IF t.kind = "err" \/ t.kind = "none" THEN Need(p)
    ELSE [p EXCEPT !.buf = WriteAt(p.buf, p.start - 2, U16ToNeBytes(AsU16(t.idx))),
                   !.start = p.start + t.idx + 2,
                   !.st = "line"]

(* Variant: the length is written over the first two bytes after the       *)
(* continuation marker.                                                     *)
write_len_header_in_text(p, t) ==
    IF t.kind = "err" THEN Fail(p, Err("InvalidLineTermination"))
    ELSE IF t.kind = "none" THEN Need(p)
    ELSE [p EXCEPT !.buf = WriteAt(p.buf, p.start, U16ToNeBytes(AsU16(t.idx))),
                   !.start = p.start + t.idx + 2,
                   !.st = "line"]

(* consume_until_newline_and_write_len_header after the scan returned t:    *)
(* the length header goes into the two bytes before the text.               *)
write_len_header(p, t) ==
    IF t.kind = "err" THEN Fail(p, Err("InvalidLineTermination"))
    ELSE IF t.kind = "none" THEN Need(p)
    ELSE [p EXCEPT !.buf = WriteAt(p.buf, p.start - 2, U16ToNeBytes(AsU16(t.idx))),
                   !.start = p.start + t.idx + 2,
                   !.st = "line"]

(* consume_until_newline_and_write_len_header, from its loop head: the line *)
(* text is buf[msg_start .. msg_start + len) once st = "line".              *)
consume_until_newline_and_write_len_header(p) ==
    write_len_header(p, buffer_contains_terminator(p.buf, p.start, p.end))

(* read_line: consume(3) and the parse of the status code.                  *)
read_code(p) ==
    IF p.stage # "code" THEN p
    ELSE IF p.end - p.start < 3 THEN Need(p)
    ELSE IF ParseCode(Slice(p.buf, p.start, p.start + 3)) < 0
    THEN Fail([p EXCEPT !.start = @ + 3], Err("NoCode"))
    ELSE [p EXCEPT !.start = @ + 3, !.stage = "marker",
                   !.code = ParseCode(Slice(p.buf, p.start, p.start + 3))]

(* Variant: a dash marks the last line as a space does.                     *)
read_marker_dash_is_last(p) ==
    IF p.st # "run" \/ p.stage # "marker" THEN p
    ELSE IF p.end - p.start < 1 THEN Need(p)
    ELSE IF B(p.buf, p.start) = SP \/ B(p.buf, p.start) = DASH
    THEN [p EXCEPT !.start = @ + 1, !.is_last = TRUE, !.stage = "term"]
    ELSE Fail([p EXCEPT !.start = @ + 1], Err("InvalidEncoding"))

(* read_line: consume(1) and the match on the continuation marker.          *)
read_marker(p) ==
    IF p.st # "run" \/ p.stage # "marker" THEN p
    ELSE IF p.end - p.start < 1 THEN Need(p)
    ELSE IF B(p.buf, p.start) = SP
    THEN [p EXCEPT !.start = @ + 1, !.is_last = TRUE, !.stage = "term"]
    ELSE IF B(p.buf, p.start) = DASH
    THEN [p EXCEPT !.start = @ + 1, !.is_last = FALSE, !.stage = "term"]
    ELSE Fail([p EXCEPT !.start = @ + 1], Err("InvalidEncoding"))

(* Variant: the text is taken as it is, whatever its encoding.              *)
check_utf8_unchecked(text_start, q) == q

(* read_line: from_utf8 of the text that starts at offset text_start.       *)
check_utf8(text_start, q) ==
    IF q.st # "line" THEN q
    ELSE IF Utf8Valid(Slice(q.buf, text_start, q.start - 2)) THEN q
    ELSE Fail(q, Err("InvalidEncoding"))

(* read_line: the search for the line terminator.                           *)
read_text(p) ==
    IF p.st # "run" THEN p
    ELSE check_utf8(p.start, consume_until_newline_and_write_len_header(p))

(* read_line, resumed at p.stage. *)
read_line(p) == read_text(read_marker(read_code(p)))

(* read_multiline_reply after its reset, resumed at the line in progress;   *)
(* after_line is its body once read_line returned q, check_code the code    *)
(* comparison and the loop condition.                                       *)
RECURSIVE read_multiline_reply(_)
RECURSIVE after_line(_)
RECURSIVE check_code(_)

(* Variant: the code of a later line is not compared with the first.       *)
check_code_ignored(r) ==
    IF r.is_last
    THEN [r EXCEPT !.buf = WriteAt(r.buf, 0, U16ToNeBytes(r.expected_code)), !.st = "ok"]
    ELSE read_multiline_reply([r EXCEPT !.stage = "code", !.st = "run"])

check_code(r) ==
    IF r.code # r.expected_code
    THEN Fail(r, CodeChanged(r.expected_code, r.code))
    ELSE IF r.is_last
    THEN [r EXCEPT !.buf = WriteAt(r.buf, 0, U16ToNeBytes(r.expected_code)), !.st = "ok"]
    ELSE read_multiline_reply([r EXCEPT !.stage = "code", !.st = "run"])

after_line(q) ==
    IF q.st # "line" THEN q
    ELSE IF q.first THEN check_code([q EXCEPT !.expected_code = q.code, !.first = FALSE])
    ELSE check_code(q)

read_multiline_reply(p) == after_line(read_line(p))

----------------------------------------------------------------------------
(* Reply and its iterators.  A Reply is [code, message_len, rem, off]:      *)
(* rem is remaining_buffer and off its offset in the region it borrows.     *)
PanicReply == [panic |-> TRUE, code |-> 0, message_len |-> 0, rem |-> <<>>, off |-> 0]

from_buffer(buffer) ==
    IF Len(buffer) < 4 THEN PanicReply
    ELSE IF Len(buffer) - 4 < U16FromNeBytes(buffer[3], buffer[4]) THEN PanicReply
    ELSE [panic |-> FALSE,
          code |-> U16FromNeBytes(buffer[1], buffer[2]),
          message_len |-> U16FromNeBytes(buffer[3], buffer[4]),
          rem |-> Slice(buffer, 4, Len(buffer)),
          off |-> 4]

(* Variant: the iteration ends when fewer than 2 bytes follow the text; the *)
(* index next[6..] panics when fewer than 6 do.                             *)
ReplyNextShort(r) ==
    IF r.rem = <<>>
    THEN [some |-> FALSE, panic |-> FALSE, item |-> <<>>, end |-> r.off, reply |-> r]
    ELSE IF r.message_len > Len(r.rem)
    THEN [some |-> FALSE, panic |-> TRUE, item |-> <<>>, end |-> r.off, reply |-> r]
    ELSE IF Len(r.rem) - r.message_len < 2
    THEN [some |-> TRUE, panic |-> FALSE, item |-> Slice(r.rem, 0, r.message_len),
          end |-> r.off + r.message_len,
          reply |-> [r EXCEPT !.rem = <<>>, !.message_len = 0, !.off = r.off + Len(r.rem)]]
    ELSE IF Len(r.rem) - r.message_len < 6
    THEN [some |-> FALSE, panic |-> TRUE, item |-> <<>>, end |-> r.off, reply |-> r]
    ELSE [some |-> TRUE, panic |-> FALSE, item |-> Slice(r.rem, 0, r.message_len),
          end |-> r.off + r.message_len,
          reply |-> [r EXCEPT !.rem = Slice(r.rem, r.message_len + 6, Len(r.rem)),
                              !.message_len = U16FromNeBytes(r.rem[r.message_len + 5],
                                                             r.rem[r.message_len + 6]),
                              !.off = r.off + r.message_len + 6]]

(* <Reply as Iterator>::next: [some, panic, item, end, reply].  end is the  *)
(* offset one past the item, for the pointer comparison in replies().       *)
ReplyNext(r) ==
    IF r.rem = <<>>
    THEN [some |-> FALSE, panic |-> FALSE, item |-> <<>>, end |-> r.off, reply |-> r]
    ELSE IF r.message_len > Len(r.rem)
    THEN [some |-> FALSE, panic |-> TRUE, item |-> <<>>, end |-> r.off, reply |-> r]
    ELSE LET this == Slice(r.rem, 0, r.message_len)
             next == Slice(r.rem, r.message_len, Len(r.rem))
             r2 == IF Len(next) < 6
                   THEN [r EXCEPT !.rem = <<>>, !.message_len = 0, !.off = r.off + Len(r.rem)]
                   ELSE [r EXCEPT !.rem = Slice(next, 6, Len(next)),
                                  !.message_len = U16FromNeBytes(next[5], next[6]),
                                  !.off = r.off + r.message_len + 6] IN
         [some |-> TRUE, panic |-> ~Utf8Valid(this), item |-> this,
          end |-> r.off + r.message_len, reply |-> r2]

(* Reply::lines().collect(): [panic, items].                                 *)
Collected(item, rest) == [panic |-> rest.panic, items |-> <<item>> \o rest.items]

RECURSIVE lines(_)
RECURSIVE LinesAfter(_)

LinesAfter(n) ==
    IF n.panic THEN [panic |-> TRUE, items |-> <<>>]
    ELSE IF ~n.some THEN [panic |-> FALSE, items |-> <<>>]
    ELSE Collected(n.item, lines(n.reply))

lines(r) == LinesAfter(ReplyNext(r))

(* Reply::replies().collect(): [panic, items] of ReplyLine records; end is  *)
(* the end of remaining_buffer when replies() was called.                   *)
RECURSIVE RepliesFrom(_, _, _)
RECURSIVE RepliesAfter(_, _, _)

RepliesAfter(n, code, end) ==
    IF n.panic THEN [panic |-> TRUE, items |-> <<>>]
    ELSE IF ~n.some THEN [panic |-> FALSE, items |-> <<>>]
    ELSE Collected([code |-> code, is_last |-> end - n.end < 2, message |-> n.item],
                   RepliesFrom(n.reply, code, end))

RepliesFrom(r, code, end) == RepliesAfter(ReplyNext(r), code, end)

replies(r) == RepliesFrom(r, r.code, r.off + Len(r.rem))

----------------------------------------------------------------------------
(* The bytes written by the command methods. *)
CRLF == <<13, 10>>
EHLO_ == <<69, 72, 76, 79, 32>>
STARTTLS_CMD == <<83, 84, 65, 82, 84, 84, 76, 83, 13, 10>>
AUTH_PLAIN_ == <<65, 85, 84, 72, 32, 80, 76, 65, 73, 78, 32>>
QUIT_CMD == <<81, 85, 73, 84, 13, 10>>
MAIL_FROM_ == <<77, 65, 73, 76, 32, 70, 82, 79, 77, 58, 60>>
RCPT_TO_ == <<82, 67, 80, 84, 32, 84, 79, 58, 60>>
CLOSE_ANGLE_CRLF == <<62, 13, 10>>
DATA_CMD == <<68, 65, 84, 65, 13, 10>>
END_OF_DATA == <<13, 10, 46, 13, 10>>
HDR_DATE == <<68, 97, 116, 101, 58, 32>>
HDR_FROM == <<70, 114, 111, 109, 58, 32>>
HDR_MSGID == <<77, 101, 115, 115, 97, 103, 101, 45, 73, 68, 58, 32, 60>>
HDR_TO == <<84, 111, 58, 32>>
HDR_CC == <<67, 99, 58, 32>>
HDR_BCC == <<66, 99, 99, 58, 32>>
HDR_REPLY_TO == <<82, 101, 112, 108, 121, 45, 84, 111, 58, 32>>
HDR_SUBJECT == <<83, 117, 98, 106, 101, 99, 116, 58, 32>>
HDR_IRT == <<73, 110, 45, 82, 101, 112, 108, 121, 45, 84, 111, 58, 32>>
HDR_REFS == <<82, 101, 102, 101, 114, 101, 110, 99, 101, 115, 58, 32>>

(* Transcript events: one "w" per write_single / write_multi call (the      *)
(* slices of a write_multi arrive concatenated), one "r" per reply that     *)
(* read_multiline_reply returned Ok, with the bytes the stream had          *)
(* deposited for it.                                                        *)
W(bytes) == [k |-> "w", bytes |-> bytes]
R(bytes) == [k |-> "r", bytes |-> bytes]
(* A call of the stream's read, write_single or write_multi that returned   *)
(* Err(e).                                                                  *)
X(e) == [k |-> "x", bytes |-> <<e>>]

(* ReadWrite::write_multi, default implementation: the slices in order.     *)
write_multi(slices) == W(Concat(slices))
write_single(bytes) == W(bytes)

----------------------------------------------------------------------------
(* Dot-stuffing body writer of send_message. *)

(* find_crlf_dot: position of the first "\r\n." in data, or -1.             *)
RECURSIVE WindowsPosition(_, _)
WindowsPosition(data, i) ==
    IF i + 3 > Len(data) THEN -1
    ELSE IF Slice(data, i, i + 3) = <<CR, LF, DOT>> THEN i
    ELSE WindowsPosition(data, i + 1)

(* Variant: no "\r\n." is ever found.                                       *)
find_nothing(data) == -1

find_crlf_dot(data) == IF Len(data) < 3 THEN -1 ELSE WindowsPosition(data, 0)

(* The while loop over pos: the write_single calls it makes.                *)
RECURSIVE BodyLoop(_, _)
BodyLoop(b, p) ==
    IF p < Len(b)
    THEN LET rel_idx == find_crlf_dot(Slice(b, p, Len(b))) IN
         IF rel_idx >= 0
         THEN LET crlf_end == p + rel_idx + 2 IN
              <<write_single(Slice(b, p, crlf_end)), write_single(<<DOT>>)>>
                  \o BodyLoop(b, crlf_end)
         ELSE <<write_single(Slice(b, p, Len(b)))>>
    ELSE <<>>

(* The writes for Some(body): the leading dot, then the loop.               *)
BodyWrites(b) ==
    (IF Len(b) >= 1 /\ b[1] = DOT THEN <<write_single(<<DOT>>)>> ELSE <<>>) \o BodyLoop(b, 0)

RECURSIVE Bytes(_)
Bytes(events) ==
    IF events = <<>> THEN <<>> ELSE Head(events).bytes \o Bytes(Tail(events))

----------------------------------------------------------------------------
(* AUTH PLAIN: base64 (standard alphabet, padded) and the in-buffer payload. *)
PAD == 61

B64Char(i) ==
    IF i < 26 THEN 65 + i
    ELSE IF i < 52 THEN 97 + (i - 26)
    ELSE IF i < 62 THEN 48 + (i - 52)
    ELSE IF i = 62 THEN 43 ELSE 47

RECURSIVE Base64(_)

(* Variant: the last group is not padded with '='.                          *)
Base64NoPad(s) ==
    IF s = <<>> THEN <<>>
    ELSE IF Len(s) = 1
    THEN <<B64Char(s[1] \div 4), B64Char((s[1] % 4) * 16)>>
    ELSE IF Len(s) = 2
    THEN <<B64Char(s[1] \div 4), B64Char((s[1] % 4) * 16 + s[2] \div 16),
           B64Char((s[2] % 16) * 4)>>
    ELSE <<B64Char(s[1] \div 4), B64Char((s[1] % 4) * 16 + s[2] \div 16),
           B64Char((s[2] % 16) * 4 + s[3] \div 64), B64Char(s[3] % 64)>>
         \o Base64(SubSeq(s, 4, Len(s)))

Base64(s) ==
    IF s = <<>> THEN <<>>
    ELSE IF Len(s) = 1
    THEN <<B64Char(s[1] \div 4), B64Char((s[1] % 4) * 16), PAD, PAD>>
    ELSE IF Len(s) = 2
    THEN <<B64Char(s[1] \div 4), B64Char((s[1] % 4) * 16 + s[2] \div 16),
           B64Char((s[2] % 16) * 4), PAD>>
    ELSE <<B64Char(s[1] \div 4), B64Char((s[1] % 4) * 16 + s[2] \div 16),
           B64Char((s[2] % 16) * 4 + s[3] \div 64), B64Char(s[3] % 64)>>
         \o Base64(SubSeq(s, 4, Len(s)))

(* The payload block of auth: [panic, buf, payload].  Every slice index and *)
(* the unwrap of encode_slice panic when the buffer is too small.           *)
AuthPayload(b, username, password) ==
    LET cap == Len(b)
        u == Len(username)
        n == u + 2 + Len(password)
        b1 == WriteAt(b, 0, <<NUL>>)
        b2 == WriteAt(b1, 1, username)
        b3 == WriteAt(b2, 1 + u, <<NUL>>)
        b4 == WriteAt(b3, u + 2, password)
        enc == Base64(Slice(b4, 0, n)) IN
    IF cap = 0 THEN [panic |-> TRUE, buf |-> b, payload |-> <<>>]
    ELSE IF 1 + u > cap THEN [panic |-> TRUE, buf |-> b1, payload |-> <<>>]
    ELSE IF 1 + u >= cap THEN [panic |-> TRUE, buf |-> b2, payload |-> <<>>]
    ELSE IF n > cap THEN [panic |-> TRUE, buf |-> b3, payload |-> <<>>]
    ELSE IF cap - n < Len(enc) THEN [panic |-> TRUE, buf |-> b4, payload |-> <<>>]
    ELSE [panic |-> FALSE, buf |-> WriteAt(b4, n, enc), payload |-> enc]

----------------------------------------------------------------------------
(* Message (src/src/message.rs): Option<&str> is <<>> or <<value>>.         *)
None == <<>>
Some(v) == <<v>>

DateText == <<87, 101, 100, 44, 32, 48, 49, 32, 74, 97, 110, 32, 50, 48, 50, 53, 32,
              49, 50, 58, 48, 48, 58, 48, 48, 32, 43, 48, 48, 48, 48>>

Message_new(from, message_id) ==
    [date |-> DateText, from |-> from, message_id |-> message_id,
     to |-> None, cc |-> None, bcc |-> None, subject |-> None, reply_to |-> None,
     in_reply_to |-> None, references |-> None, body |-> None]

(* str::contains("\r\n") *)
RECURSIVE ContainsCRLF(_)
ContainsCRLF(v) ==
    IF Len(v) < 2 THEN FALSE
    ELSE IF v[1] = CR /\ v[2] = LF THEN TRUE
    ELSE ContainsCRLF(Tail(v))

(* check_header on an optional header: TRUE when it returns Err.            *)
BadOpt(o) == o # None /\ ContainsCRLF(o[1])

(* Variant: only the two required headers are checked.                     *)
check_required_headers(m) ==
    IF ContainsCRLF(m.from) THEN "From"
    ELSE IF ContainsCRLF(m.message_id) THEN "Message-ID"
    ELSE ""

(* The header checks of send_message in order: the name of the first        *)
(* header whose value contains CRLF, or "" when all pass.                   *)
check_headers(m) ==
    IF ContainsCRLF(m.from) THEN "From"
    ELSE IF ContainsCRLF(m.message_id) THEN "Message-ID"
    ELSE IF BadOpt(m.to) THEN "To"
    ELSE IF BadOpt(m.cc) THEN "Cc"
    ELSE IF BadOpt(m.bcc) THEN "Bcc"
    ELSE IF BadOpt(m.reply_to) THEN "Reply-To"
    ELSE IF BadOpt(m.subject) THEN "Subject"
    ELSE IF BadOpt(m.in_reply_to) THEN "In-Reply-To"
    ELSE IF BadOpt(m.references) THEN "References"
    ELSE ""

InvalidHeader(name) == [kind |-> "Err", err |-> "InvalidHeader", a |-> 0, b |-> 0, name |-> name]

OptHeader(prefix, o) ==
    IF o = None THEN <<>> ELSE <<write_multi(<<prefix, o[1], CRLF>>)>>

(* Variant: the Cc header is written before the To header.                  *)
MessageWritesCcFirst(m) ==
    <<write_multi(<<HDR_DATE, m.date, CRLF>>),
      write_multi(<<HDR_FROM, m.from, CRLF>>),
      write_multi(<<HDR_MSGID, m.message_id, CLOSE_ANGLE_CRLF>>)>>
    \o OptHeader(HDR_CC, m.cc)
    \o OptHeader(HDR_TO, m.to)
    \o OptHeader(HDR_BCC, m.bcc)
    \o OptHeader(HDR_REPLY_TO, m.reply_to)
    \o OptHeader(HDR_SUBJECT, m.subject)
    \o OptHeader(HDR_IRT, m.in_reply_to)
    \o OptHeader(HDR_REFS, m.references)
    \o <<write_single(CRLF)>>
    \o (IF m.body = None THEN <<>> ELSE BodyWrites(m.body[1]))
    \o <<write_single(END_OF_DATA)>>

(* What send_message writes after the 354 reply, one event per write call.  *)
MessageWrites(m) ==
    <<write_multi(<<HDR_DATE, m.date, CRLF>>),
      write_multi(<<HDR_FROM, m.from, CRLF>>),
      write_multi(<<HDR_MSGID, m.message_id, CLOSE_ANGLE_CRLF>>)>>
    \o OptHeader(HDR_TO, m.to)
    \o OptHeader(HDR_CC, m.cc)
    \o OptHeader(HDR_BCC, m.bcc)
    \o OptHeader(HDR_REPLY_TO, m.reply_to)
    \o OptHeader(HDR_SUBJECT, m.subject)
    \o OptHeader(HDR_IRT, m.in_reply_to)
    \o OptHeader(HDR_REFS, m.references)
    \o <<write_single(CRLF)>>
    \o (IF m.body = None THEN <<>> ELSE BodyWrites(m.body[1]))
    \o <<write_single(END_OF_DATA)>>

----------------------------------------------------------------------------
(* The environment: what the caller passes and what the server sends.       *)

Domains == {<<LetterX>>}
Usernames == {<<117>>}
Passwords == {<<112>>}
(* The credentials of the "auth" mode: plaintexts of 3, 4 and 5 bytes, and  *)
(* two passwords of one length.                                             *)
AuthUsernames == {<<>>, <<117>>}
AuthPasswords == {<<112>>, <<113>>, <<112, 119>>}
Senders == {<<LetterA>>}
Recipients == [i \in 1..MaxRcpt |-> <<LetterX + i - 1>>]
RcptLists == {SubSeq(Recipients, 1, n) : n \in 0..MaxRcpt}
Datas == {<<LetterA>>}

CleanValue == <<LetterA>>
DirtyValue == <<LetterA, CR, LF, LetterX>>
OptNames == {"to", "cc", "bcc", "reply_to", "subject", "in_reply_to", "references"}
HeaderNames == {"from", "message_id"} \cup OptNames

AllAbsent == Message_new(CleanValue, CleanValue)
AllPresent ==
    [AllAbsent EXCEPT !.to = Some(CleanValue), !.cc = Some(CleanValue), !.bcc = Some(CleanValue),
                      !.reply_to = Some(CleanValue), !.subject = Some(CleanValue),
                      !.in_reply_to = Some(CleanValue), !.references = Some(CleanValue)]

(* m with header h carrying a value that contains CRLF.                     *)
Taint(m, h) ==
    IF h = "" THEN m
    ELSE IF h \in OptNames THEN [m EXCEPT ![h] = Some(DirtyValue)]
    ELSE [m EXCEPT ![h] = DirtyValue]

StuffedBody == <<DOT, LetterA, CR, LF, DOT>>

Messages ==
    {AllAbsent, [AllPresent EXCEPT !.body = Some(StuffedBody)]}
    \cup {Taint(AllAbsent, h) : h \in HeaderNames}
    \cup {Taint(Taint(AllPresent, h1), h2) : h1 \in HeaderNames, h2 \in HeaderNames}

(* The messages of the "message" mode: none, any one, all but one or all   *)
(* of the optional headers set, and no body, a body of one letter or a     *)
(* body with lines that begin with a dot.                                   *)
Opt(h, set) == IF h \in set THEN Some(CleanValue) ELSE None
WithHeaders(set, bd) ==
    [AllAbsent EXCEPT !.to = Opt("to", set), !.cc = Opt("cc", set), !.bcc = Opt("bcc", set),
                      !.reply_to = Opt("reply_to", set), !.subject = Opt("subject", set),
                      !.in_reply_to = Opt("in_reply_to", set),
                      !.references = Opt("references", set), !.body = bd]
MessageBodies == {None, Some(<<LetterA>>), Some(StuffedBody)}
HeaderChoices ==
    {set \in SUBSET OptNames : Cardinality(set) <= 1 \/ Cardinality(OptNames \ set) <= 1}
AllMessages == {WithHeaders(set, bd) : set \in HeaderChoices, bd \in MessageBodies}

(* The messages of the "data" mode: a From and a last header, References,  *)
(* with values that hold CR, LF and '.' next to the header's own CRLF, one  *)
(* of them with CRLF; and every body of up to MaxDataBody bytes over '.',   *)
(* CR, LF and a letter.                                                     *)
MaxDataBody == 5
DataValues == {CleanValue, <<CR>>, <<DOT>>, <<LF, DOT, CR>>, <<LetterA, CR, LF>>}
DataBodies ==
    {None} \cup {Some(b) : b \in UNION {[1..n -> {DOT, CR, LF, LetterA}] : n \in 0..MaxDataBody}}
DataMessages ==
    {[AllAbsent EXCEPT !.from = f, !.references = r, !.body = bd] :
        f \in {CleanValue, <<LF, DOT, CR>>},
        r \in {None} \cup {Some(v) : v \in DataValues},
        bd \in DataBodies}

(* The messages of the "order" mode: one that passes the header guard and  *)
(* one that does not.                                                       *)
OrderMessages == {AllAbsent, Taint(AllAbsent, "subject")}

NoArgs ==
    [domain |-> <<>>, username |-> <<>>, password |-> <<>>, from |-> <<>>, to |-> <<>>,
     data |-> <<>>, message |-> AllAbsent]

(* The environment has thirteen modes.  "reader": one command per session and   *)
(* a server that may send malformed lines.  "command": one command per      *)
(* session and a server that sends well-formed lines with any of the codes   *)
(* a step may expect.  "auth": as "command", with more credentials.         *)
(* "session": any number of commands and a server that answers each with   *)
(* one line, the expected code or 550.  "io": one command per session,     *)
(* answered as in "session", on a stream that may fail.  "greeting": one   *)
(* ready(), answered by 220 or 550 in lines whose texts are made of a      *)
(* letter and the space.  "message": one send_message per session, with    *)
(* more messages and one recipient, answered as in "session".  "cancel":   *)
(* one command whose future may be dropped while it reads, and then one     *)
(* more command; the server answers the first command, in one to MaxLines   *)
(* lines, and does not answer the second.  "order": up to MaxCalls         *)
(* commands, in any order, answered as in "session".  "surplus": up to     *)
(* MaxCalls commands with one reply each, and a server that may send the   *)
(* lines of its next reply before the next command is written.  "inject":  *)
(* one ehlo, send_mail or send_message whose domain, sender or recipients  *)
(* may contain CRLF, and whose data may hold a line that is a lone '.',    *)
(* answered as in "session".  "data": no command; the    *)
(* data that send_message writes after 354 is computed for args.message.   *)
(* "count": one ready(), answered by 220 or 550 in one to MaxLines lines,   *)
(* with the calls of stream.read counted.                                   *)
CodeBytes(n) == <<ZERO + (n \div 100), ZERO + ((n \div 10) % 10), ZERO + (n % 10)>>

(* Variant: every step accepts 250.                                         *)
ExpectedAlways250(c, st) == 250

(* The error values a stream may return.                                    *)
MaxErr == 2
MaxFault == 8
StreamErrors == 1..MaxErr

(* Variant: after a command future was dropped, the reply is checked       *)
(* against the code the dropped command expected.                           *)
ExpectedOfLost(c, st) ==
    IF env.lost.cmd \in {"ready", "starttls"} THEN 220
    ELSE IF env.lost.cmd = "ehlo" THEN 250
    ELSE IF env.lost.cmd = "quit" THEN 221
    ELSE IF c = "ready" \/ c = "starttls" THEN 220
    ELSE IF c = "ehlo" THEN 250
    ELSE IF c = "auth" THEN 235
    ELSE IF c = "quit" THEN 221
    ELSE IF st = "DATA" THEN 354
    ELSE 250

(* Variant: the session remembers whether it was greeted, and the first    *)
(* command of a session accepts a reply only if it is ready().              *)
ExpectedInOrder(c, st) ==
    IF env.calls = 1 /\ c # "ready" THEN 0
    ELSE IF c = "ready" \/ c = "starttls" THEN 220
    ELSE IF c = "ehlo" THEN 250
    ELSE IF c = "auth" THEN 235
    ELSE IF c = "quit" THEN 221
    ELSE IF st = "DATA" THEN 354
    ELSE 250

(* The single status code each step accepts.                                *)
Expected(c, st) ==
    IF c = "ready" \/ c = "starttls" THEN 220
    ELSE IF c = "ehlo" THEN 250
    ELSE IF c = "auth" THEN 235
    ELSE IF c = "quit" THEN 221
    ELSE IF st = "DATA" THEN 354
    ELSE 250

ReaderCodes == {CodeBytes(220), CodeBytes(250), CodeBytes(251), CodeBytes(99),
                <<PLUS, 50, 53>>, <<50, LetterX, 48>>, <<50, 50, LF>>}
(* What a well-behaved server answers a step with: the code the step       *)
(* expects, the success code of some other step, or a failure.              *)
OtherSuccess(n) == IF n = 250 THEN 220 ELSE 250
CommandCodes ==
    {CodeBytes(Expected(cmd, step)), CodeBytes(OtherSuccess(Expected(cmd, step))), CodeBytes(550)}
(* No command future was dropped.                                           *)
NoLost == [cmd |-> "", bytes |-> <<>>]

(* The command the server is answering: the one whose future was dropped,  *)
(* if one was, since its reply is still on its way.                         *)
Answered == IF env.lost.cmd # "" THEN env.lost.cmd ELSE cmd
(* The server may send malformed lines.                                     *)
Malformed == env.mode = "reader"
CodeStrs ==
    IF Malformed THEN ReaderCodes
    ELSE IF env.mode \in {"command", "auth"} THEN CommandCodes
    ELSE {CodeBytes(Expected(Answered, step)), CodeBytes(550)}
Markers ==
    IF Malformed THEN {SP, DASH, LetterX, LF}
    ELSE IF env.mode \in {"command", "auth", "greeting", "cancel", "count"} THEN {SP, DASH}
    ELSE {SP}
TextBytes ==
    IF Malformed THEN {LetterA, BadByte}
    ELSE IF env.mode = "greeting" THEN {LetterA, SP}
    ELSE {}
(* The longest text the server sends.                                       *)
MaxGreeting == 3
TextCap == IF env.mode = "greeting" THEN MaxGreeting ELSE MaxText
(* The server does not wait for the next command before it sends on.       *)
Early == env.mode = "surplus"

(* The bytes the server may send next, given its partial line.              *)
EnvBytes(st) ==
    LET p == Len(st.line) IN
    IF st.sent >= MaxLines \/ (~Malformed /\ ~Early /\ st.final) THEN {}
    ELSE IF p < 3 THEN {c[p + 1] : c \in {c \in CodeStrs : SubSeq(c, 1, p) = st.line}}
    ELSE IF p = 3 THEN Markers
    ELSE IF st.line[p] = CR /\ p > 4 THEN {LF} \cup (IF Malformed THEN {LetterA} ELSE {})
    ELSE (IF p - 4 < TextCap THEN TextBytes ELSE {})
         \cup {CR} \cup (IF Malformed THEN {LF} ELSE {})

EnvAdvance(st, b) ==
    IF b = LF
    THEN [st EXCEPT !.line = <<>>, !.sent = @ + 1,
                    !.final = @ \/ (Len(st.line) >= 5 /\ st.line[4] = SP
                                    /\ st.line[Len(st.line)] = CR)]
    ELSE [st EXCEPT !.line = Append(@, b)]

(* The reads the stream may complete with: [bytes, stream] for 1..n bytes.  *)
RECURSIVE Chunks(_, _)
Chunks(st, n) ==
    IF n = 0 THEN {}
    ELSE UNION {
        LET st2 == EnvAdvance(st, b) IN
        {[bytes |-> <<b>>, stream |-> st2]}
        \cup {[bytes |-> <<b>> \o c.bytes, stream |-> c.stream] : c \in Chunks(st2, n - 1)}
        : b \in EnvBytes(st)}

----------------------------------------------------------------------------
(* The command sequencer. *)

MailFrom(from) == write_multi(<<MAIL_FROM_, from, CLOSE_ANGLE_CRLF>>)
RcptTo(to) == write_multi(<<RCPT_TO_, to, CLOSE_ANGLE_CRLF>>)

(* Variant: the data goes out without the end-of-data marker.               *)
send_data_unterminated(data) == write_multi(<<data>>)

(* send_data: the data and the end-of-data marker in one write_multi.       *)
send_data(data) == write_multi(<<data, END_OF_DATA>>)

(* send_mail / send_message after a reply with the expected code: the next  *)
(* step and what is written before its reply is read.                       *)
NextStep(c, st, n, a) ==
    IF c \notin {"send_mail", "send_message"} \/ st = "EOD"
    THEN [step |-> "END", rcpt |-> n, writes |-> <<>>]
    ELSE IF st = "DATA"
    THEN [step |-> "EOD", rcpt |-> n,
          writes |-> IF c = "send_mail" THEN <<send_data(a.data)>> ELSE MessageWrites(a.message)]
    ELSE IF n < Len(a.to)
    THEN [step |-> "RCPT", rcpt |-> n + 1, writes |-> <<RcptTo(a.to[n + 1])>>]
    ELSE [step |-> "DATA", rcpt |-> n, writes |-> <<write_single(DATA_CMD)>>]

(* The caller of a "session" may call again and again; the caller of an     *)
(* "order" makes up to MaxCalls calls, which env.calls counts.              *)
MaxCalls == 2
CallAllowed ==
    \/ env.mode = "session"
    \/ env.calls = 0
    \/ env.mode = "cancel" /\ env.calls = 1 /\ env.lost.cmd # ""
    \/ env.mode \in {"order", "surplus"} /\ env.calls < MaxCalls

(* Variant: the range stays where the reply before left it.                 *)
range_kept(u) == u

(* read_multiline_reply, first statement: self.buf_unprocessed = 0..0.      *)
range_reset(u) == [start |-> 0, end |-> 0]

(* The stream fails its env.fault.at-th write of a command with the error   *)
(* env.fault.e (never, when at = 0).  Of the writes a step makes after n    *)
(* earlier ones: those made, the failing call last, and whether one failed: *)
(* `.map_err(Error::IoError)?` returns at the first failure.                *)
Attempt(n, writes) ==
    IF env.fault.at > n /\ env.fault.at <= n + Len(writes)
    THEN [made |-> Append(Slice(writes, 0, env.fault.at - n - 1), X(env.fault.e)),
          failed |-> TRUE]
    ELSE [made |-> writes, failed |-> FALSE]

(* The write calls made so far by the command.                              *)
WritesMade == Cardinality({k \in 1..Len(io) : io[k].k = "w"})

(* A command method is entered: its writes are made and it suspends in the  *)
(* first read of read_multiline_reply, which has reset the range; or one    *)
(* of its writes fails and it returns the error.                            *)
Begin(c, a, st, writes, b) ==
    /\ pc = "idle"
    /\ CallAllowed
    /\ cmd' = c
    /\ args' = a
    /\ env' = [env EXCEPT !.calls = IF env.mode = "session" THEN 0 ELSE env.calls + 1,
                          !.reads = 0]
    /\ UNCHANGED dotVars
    /\ UNCHANGED pureVars
    /\ IF Attempt(0, writes).failed
       THEN /\ step' = "END"
            /\ rcpt' = 0
            /\ io' = Attempt(0, writes).made
            /\ buf' = b
            /\ result' = IoError(env.fault.e)
            /\ pc' = "done"
            /\ UNCHANGED <<unprocessed, rl, raw, stream>>
       ELSE /\ step' = st
            /\ rcpt' = 0
            /\ io' = writes
            /\ buf' = b
            /\ unprocessed' = range_reset(unprocessed)
            /\ rl' = RlInit
            /\ raw' = <<>>
            /\ result' = NoResult
            /\ pc' = "reading"
            /\ stream' = IF env.lost.cmd # "" THEN stream
                         ELSE [stream EXCEPT !.sent = 0, !.final = FALSE]

(* A command method returns without having read: r, or the error of a      *)
(* write that failed.                                                       *)
ReturnAtOnce(c, a, writes, b, r, p) ==
    /\ pc = "idle"
    /\ CallAllowed
    /\ cmd' = c
    /\ args' = a
    /\ step' = "END"
    /\ rcpt' = 0
    /\ io' = Attempt(0, writes).made
    /\ buf' = b
    /\ result' = IF Attempt(0, writes).failed THEN IoError(env.fault.e) ELSE r
    /\ pc' = p
    /\ env' = [env EXCEPT !.calls = IF env.mode = "session" THEN 0 ELSE env.calls + 1]
    /\ UNCHANGED <<unprocessed, rl, raw, stream>>
    /\ UNCHANGED dotVars
    /\ UNCHANGED pureVars

(* What the caller may pass for the domain, the sender, the recipients and  *)
(* the data; in the "inject" mode, also strings that contain CRLF and data  *)
(* with a line that is a lone '.'.                                          *)
LoneDotData == <<LetterA, CR, LF, DOT, CR, LF, LetterX>>
DatasOf == IF env.mode = "inject" THEN Datas \cup {LoneDotData} ELSE Datas
DomainsOf == IF env.mode = "inject" THEN Domains \cup {DirtyValue} ELSE Domains
SendersOf == IF env.mode = "inject" THEN Senders \cup {DirtyValue} ELSE Senders
RcptListsOf ==
    IF env.mode = "inject" THEN {<<Recipients[1]>>, <<DirtyValue>>, <<Recipients[1], DirtyValue>>}
    ELSE IF env.mode \in {"message", "order"} THEN {SubSeq(Recipients, 1, 1)}
    ELSE RcptLists

ready == Begin("ready", NoArgs, "REPLY", <<>>, buf)

ehlo ==
    \E domain \in DomainsOf :
        Begin("ehlo", [NoArgs EXCEPT !.domain = domain], "REPLY",
              <<write_multi(<<EHLO_, domain, CRLF>>)>>, buf)

starttls == Begin("starttls", NoArgs, "REPLY", <<write_single(STARTTLS_CMD)>>, buf)

auth ==
    \E username \in (IF env.mode = "auth" THEN AuthUsernames ELSE Usernames),
       password \in (IF env.mode = "auth" THEN AuthPasswords ELSE Passwords) :
        LET a == [NoArgs EXCEPT !.username = username, !.password = password]
            pl == AuthPayload(buf, username, password) IN
        IF pl.panic
        THEN ReturnAtOnce("auth", a, <<>>, pl.buf, NoResult, "panicked")
        ELSE Begin("auth", a, "REPLY", <<write_multi(<<AUTH_PLAIN_, pl.payload, CRLF>>)>>, pl.buf)

(* Variant: fast_quit waits for the server's reply as quit does.            *)
fast_quit_reading == Begin("fast_quit", NoArgs, "REPLY", <<write_single(QUIT_CMD)>>, buf)

fast_quit == ReturnAtOnce("fast_quit", NoArgs, <<write_single(QUIT_CMD)>>, buf, Ok, "done")

quit == Begin("quit", NoArgs, "REPLY", <<write_single(QUIT_CMD)>>, buf)

send_mail ==
    \E from \in SendersOf,
       to \in (IF env.mode = "inject" THEN RcptListsOf ELSE RcptLists),
       data \in DatasOf :
        Begin("send_mail", [NoArgs EXCEPT !.from = from, !.to = to, !.data = data], "MAIL",
              <<MailFrom(from)>>, buf)

send_message ==
    \E message \in (IF env.mode = "message" THEN AllMessages
                    ELSE IF env.mode \in {"order", "inject"} THEN OrderMessages ELSE Messages),
       envelope_from \in SendersOf,
       envelope_to \in RcptListsOf :
        LET a == [NoArgs EXCEPT !.from = envelope_from, !.to = envelope_to,
                                !.message = message]
            bad == check_headers(message) IN
        IF bad # ""
        THEN ReturnAtOnce("send_message", a, <<>>, buf, InvalidHeader(bad), "done")
        ELSE Begin("send_message", a, "MAIL", <<MailFrom(envelope_from)>>, buf)

(* The command returns r. *)
Finish(r) ==
    /\ pc' = "done"
    /\ result' = r
    /\ UNCHANGED <<cmd, args, step, rcpt>>

(* The reader went as far as the buffered bytes allow: the command          *)
(* suspends again, fails, or has its reply and checks the status code.      *)
(* s2 is the server after the read; a step that succeeds is followed by     *)
(* the next step's writes, which the server answers with a new reply.       *)
Resume(p, raw2, s2) ==
    /\ buf' = p.buf
    /\ IF p.st = "need"
       THEN /\ unprocessed' = [start |-> p.start, end |-> p.end]
            /\ stream' = s2
            /\ raw' = raw2
            /\ rl' = Locals(p)
            /\ UNCHANGED <<pc, result, cmd, args, step, rcpt, io>>
       ELSE IF p.st = "err"
       THEN /\ unprocessed' = [start |-> p.start, end |-> p.end]
            /\ stream' = s2
            /\ raw' = raw2
            /\ rl' = Locals(p)
            /\ Finish(p.res)
            /\ UNCHANGED io
       ELSE LET reply == from_buffer(Slice(p.buf, 0, p.start))
                nx == NextStep(cmd, step, rcpt, args)
                seen == Append(io, R(Slice(raw2, 0, p.start))) IN
            IF reply.panic
            THEN /\ unprocessed' = [start |-> p.start, end |-> p.end]
                 /\ stream' = s2
                 /\ raw' = raw2
                 /\ rl' = Locals(p)
                 /\ pc' = "panicked"
                 /\ io' = seen
                 /\ UNCHANGED <<result, cmd, args, step, rcpt>>
            ELSE IF reply.code # Expected(cmd, step)
            THEN /\ unprocessed' = [start |-> p.start, end |-> p.end]
                 /\ stream' = s2
                 /\ raw' = raw2
                 /\ rl' = Locals(p)
                 /\ Finish(UnexpectedCode(Expected(cmd, step), reply.code))
                 /\ io' = seen
            ELSE IF nx.step = "END"
            THEN /\ unprocessed' = [start |-> p.start, end |-> p.end]
                 /\ stream' = s2
                 /\ raw' = raw2
                 /\ rl' = Locals(p)
                 /\ Finish(Ok)
                 /\ io' = seen
            ELSE IF Attempt(WritesMade, nx.writes).failed
            THEN /\ unprocessed' = [start |-> p.start, end |-> p.end]
                 /\ stream' = s2
                 /\ raw' = raw2
                 /\ rl' = Locals(p)
                 /\ Finish(IoError(env.fault.e))
                 /\ io' = seen \o Attempt(WritesMade, nx.writes).made
            ELSE /\ unprocessed' = range_reset([start |-> p.start, end |-> p.end])
                 /\ stream' = [s2 EXCEPT !.sent = 0, !.final = FALSE]
                 /\ raw' = <<>>
                 /\ rl' = RlInit
                 /\ io' = seen \o nx.writes
                 /\ step' = nx.step
                 /\ rcpt' = nx.rcpt
                 /\ UNCHANGED <<pc, result, cmd, args>>

(* In the "count" mode env.reads counts the calls of stream.read that the  *)
(* running read_multiline_reply has made, up to MaxReads.                    *)
MaxReads == 16
Counted(e) == IF e.mode = "count" THEN [e EXCEPT !.reads = @ + 1] ELSE e

(* fill_buffer: stream.read deposits n >= 1 bytes at unprocessed.end.       *)
StreamRead ==
    /\ pc = "reading"
    /\ env.reads < MaxReads
    /\ ~stream.eof
    /\ unprocessed.end < Len(buf)
    /\ \E c \in Chunks(stream, Min(MaxChunk, Len(buf) - unprocessed.end)) :
       \E p \in {read_multiline_reply(
                     Reader(WriteAt(buf, unprocessed.end, c.bytes),
                            [start |-> unprocessed.start,
                             end |-> unprocessed.end + Len(c.bytes)], rl))} :
           Resume(p, raw \o c.bytes, c.stream)
    /\ env' = Counted(env)
    /\ UNCHANGED dotVars
    /\ UNCHANGED pureVars

(* Variant: a read of 0 bytes is taken for a short read and the range      *)
(* grows by one byte.                                                       *)
fill_buffer_zero_advances(u) ==
    [res |-> NoResult, unprocessed |-> [u EXCEPT !.end = @ + 1]]

(* Variant: a read of 0 bytes is taken for a short read and is repeated.    *)
fill_buffer_zero_ignored(u) == [res |-> NoResult, unprocessed |-> u]

(* fill_buffer when stream.read returned 0: the error, and the range as it  *)
(* was.                                                                     *)
fill_buffer_zero(u) == [res |-> Err("UnexpectedEof"), unprocessed |-> u]

(* fill_buffer: stream.read returns 0 because the server closed.            *)
StreamEof ==
    /\ pc = "reading"
    /\ env.reads < MaxReads
    /\ unprocessed.end < Len(buf)
    /\ stream' = [stream EXCEPT !.eof = TRUE]
    /\ unprocessed' = fill_buffer_zero(unprocessed).unprocessed
    /\ IF fill_buffer_zero(unprocessed).res = NoResult
       THEN UNCHANGED <<pc, result, cmd, args, step, rcpt>>
       ELSE Finish(fill_buffer_zero(unprocessed).res)
    /\ env' = Counted(env)
    /\ UNCHANGED <<buf, rl, io, raw>>
    /\ UNCHANGED dotVars
    /\ UNCHANGED pureVars

(* fill_buffer: stream.read returns Err(e); the range stays as it was and   *)
(* the command returns the error.                                           *)
StreamError ==
    /\ pc = "reading"
    /\ \E e \in StreamErrors :
        /\ io' = Append(io, X(e))
        /\ Finish(IoError(e))
    /\ UNCHANGED <<buf, unprocessed, rl, raw, stream, env>>
    /\ UNCHANGED dotVars
    /\ UNCHANGED pureVars

(* fill_buffer: the buffer is full, stream.read is given an empty slice     *)
(* and returns 0.                                                           *)
StreamReadFull ==
    /\ pc = "reading"
    /\ env.reads < MaxReads
    /\ unprocessed.end = Len(buf)
    /\ unprocessed' = fill_buffer_zero(unprocessed).unprocessed
    /\ IF fill_buffer_zero(unprocessed).res = NoResult
       THEN UNCHANGED <<pc, result, cmd, args, step, rcpt>>
       ELSE Finish(fill_buffer_zero(unprocessed).res)
    /\ env' = Counted(env)
    /\ UNCHANGED <<buf, rl, io, raw, stream>>
    /\ UNCHANGED dotVars
    /\ UNCHANGED pureVars

(* The caller drops the future of a command that is suspended in a read:   *)
(* the locals of the command are gone; the session, its buffer, its range   *)
(* and the stream are as the last poll left them.                           *)
Drop ==
    /\ pc = "reading"
    /\ env.lost = NoLost
    /\ pc' = "idle"
    /\ env' = [env EXCEPT !.lost = [cmd |-> cmd, bytes |-> raw]]
    /\ cmd' = ""
    /\ args' = NoArgs
    /\ step' = "END"
    /\ rcpt' = 0
    /\ rl' = RlInit
    /\ result' = NoResult
    /\ io' = <<>>
    /\ raw' = <<>>
    /\ UNCHANGED <<buf, unprocessed, stream>>
    /\ UNCHANGED dotVars
    /\ UNCHANGED pureVars

(* The caller drops the result and may call the next command.  Of a server  *)
(* that sends early, env.lost.bytes records the bytes that were received    *)
(* and are not yet consumed.                                                *)
Return ==
    /\ pc = "done"
    /\ pc' = "idle"
    /\ cmd' = ""
    /\ args' = NoArgs
    /\ step' = "END"
    /\ rcpt' = 0
    /\ rl' = RlInit
    /\ result' = NoResult
    /\ io' = <<>>
    /\ raw' = <<>>
    /\ env' = IF Early
              THEN [env EXCEPT !.lost.bytes = Slice(buf, unprocessed.start, unprocessed.end)]
              ELSE env
    /\ UNCHANGED <<buf, unprocessed, stream>>
    /\ UNCHANGED dotVars
    /\ UNCHANGED pureVars

----------------------------------------------------------------------------
StreamInit == [eof |-> FALSE, line |-> <<>>, sent |-> 0, final |-> FALSE]

(* The stream's writes do not fail.                                         *)
NoFault == [at |-> 0, e |-> 0]

(* A new session on the buffer b, in the environment r whose stream fails  *)
(* as f says.                                                               *)
SessionInitFault(b, r, f) ==
    /\ buf = b
    /\ unprocessed = [start |-> 0, end |-> 0]
    /\ pc = "idle"
    /\ cmd = ""
    /\ args \in (IF r = "data" THEN {[NoArgs EXCEPT !.message = m] : m \in DataMessages}
                 ELSE {NoArgs})
    /\ step = "END"
    /\ rcpt = 0
    /\ rl = RlInit
    /\ result = NoResult
    /\ io = <<>>
    /\ raw = <<>>
    /\ stream = StreamInit
    /\ env = [mode |-> r, calls |-> 0, fault |-> f, lost |-> NoLost, reads |-> 0]

SessionInit(b, r) == SessionInitFault(b, r, NoFault)

DotIdle == body = <<>> /\ out = <<>> /\ dpc = "done"

(* The functions checked alone are not in use.                              *)
WmIdle == [buf |-> <<>>, vectored |-> FALSE, l |-> 0, slices |-> <<>>, wire |-> <<>>, pc |-> "done"]
ExIdle == [orig |-> <<>>, line |-> <<>>, parsed |-> <<>>, pc |-> "done"]
EhIdle == [lines |-> <<>>, ext |-> <<>>, supported |-> <<>>, pc |-> "done"]
LlIdle ==
    [lines |-> <<>>, segs |-> <<>>, code |-> 0, message_len |-> 0, off |-> 0, len |-> 0,
     items |-> <<>>, panic |-> "", pc |-> "done"]
PureIdle == wm = WmIdle /\ ex = ExIdle /\ eh = EhIdle /\ ll = LlIdle

(* One command on a fresh session with a BufCap-byte buffer.                *)
Init == SessionInit(Zeros(BufCap), "command") /\ DotIdle /\ PureIdle

Next ==
    \/ ready
    \/ ehlo
    \/ starttls
    \/ auth
    \/ fast_quit
    \/ quit
    \/ send_mail
    \/ send_message
    \/ StreamRead
    \/ StreamEof
    \/ StreamReadFull
    \/ Return

Spec == Init /\ [][Next]_vars

(* One reply read by ready() on a buffer of any capacity up to BufCap,      *)
(* from a server that may send malformed bytes.                             *)
InitReader == (\E n \in 0..BufCap : SessionInit(Zeros(n), "reader")) /\ DotIdle /\ PureIdle

NextReader ==
    \/ ready
    \/ StreamRead
    \/ StreamEof
    \/ StreamReadFull
    \/ Return

SpecReader == InitReader /\ [][NextReader]_vars

(* A session on a BufCap-byte buffer, or on one too small for any reply     *)
(* line: any commands, in any order.                                        *)
InitSession ==
    /\ \E n \in {BufCap, BufCap \div 2 - 1} : SessionInit(Zeros(n), "session")
    /\ DotIdle
    /\ PureIdle

SpecSession == InitSession /\ [][Next]_vars

(* auth() alone, on a buffer of any capacity up to BufCap that is zeroed    *)
(* or holds what an earlier use left in it.                                 *)
Filled(n) == [i \in 1..n |-> BadByte]

InitAuth ==
    /\ \E n \in 0..BufCap : \E b \in {Zeros(n), Filled(n)} : SessionInit(b, "auth")
    /\ DotIdle
    /\ PureIdle

NextAuth ==
    \/ auth
    \/ StreamRead
    \/ StreamEof
    \/ StreamReadFull
    \/ Return

SpecAuth == InitAuth /\ [][NextAuth]_vars

(* One command on a fresh session whose stream may fail: any one write of   *)
(* the first MaxFault of the command, or any read, returns one of MaxErr    *)
(* error values.  The server answers each step with one line; the buffer   *)
(* holds BufCap bytes or is too small for any reply line.                   *)
Faults == {NoFault} \cup {[at |-> k, e |-> e] : k \in 1..MaxFault, e \in StreamErrors}

InitIo ==
    /\ \E f \in Faults, n \in {BufCap, BufCap \div 2 - 1} :
           SessionInitFault(Zeros(n), "io", f)
    /\ DotIdle
    /\ PureIdle

NextIo ==
    \/ ready
    \/ ehlo
    \/ starttls
    \/ auth
    \/ fast_quit
    \/ quit
    \/ send_mail
    \/ send_message
    \/ StreamRead
    \/ StreamEof
    \/ StreamReadFull
    \/ StreamError
    \/ Return

SpecIo == InitIo /\ [][NextIo]_vars

(* ready() alone, greeted in one to MaxLines lines with texts of up to      *)
(* MaxGreeting bytes.                                                       *)
InitGreeting == SessionInit(Zeros(BufCap), "greeting") /\ DotIdle /\ PureIdle

NextGreeting ==
    \/ ready
    \/ StreamRead
    \/ StreamEof
    \/ StreamReadFull
    \/ Return

SpecGreeting == InitGreeting /\ [][NextGreeting]_vars

(* A command with one reply, whose future the caller may drop, and the      *)
(* command the caller makes after that.                                     *)
InitCancel == SessionInit(Zeros(BufCap), "cancel") /\ DotIdle /\ PureIdle

NextCancel ==
    \/ ready
    \/ ehlo
    \/ starttls
    \/ quit
    \/ Drop
    \/ StreamRead
    \/ StreamEof
    \/ StreamReadFull
    \/ Return

SpecCancel == InitCancel /\ [][NextCancel]_vars

(* A session of up to MaxCalls commands, any of them first, on a buffer of  *)
(* BufCap bytes or on one too small for any reply line.                     *)
InitOrder ==
    /\ \E n \in {BufCap, BufCap \div 2 - 1} : SessionInit(Zeros(n), "order")
    /\ DotIdle
    /\ PureIdle

SpecOrder == InitOrder /\ [][Next]_vars

(* Up to MaxCalls commands with one reply each, and a server that sends     *)
(* early.                                                                   *)
InitSurplus ==
    /\ \E n \in {BufCap, BufCap \div 2 - 1} : SessionInit(Zeros(n), "surplus")
    /\ DotIdle
    /\ PureIdle

NextSurplus ==
    \/ ready
    \/ ehlo
    \/ starttls
    \/ quit
    \/ StreamRead
    \/ StreamEof
    \/ StreamReadFull
    \/ Return

SpecSurplus == InitSurplus /\ [][NextSurplus]_vars

(* One ehlo, send_mail or send_message with arguments that may contain      *)
(* CRLF.                                                                    *)
InitInject ==
    /\ \E n \in {BufCap, BufCap \div 2 - 1} : SessionInit(Zeros(n), "inject")
    /\ DotIdle
    /\ PureIdle

NextInject ==
    \/ ehlo
    \/ send_mail
    \/ send_message
    \/ StreamRead
    \/ StreamEof
    \/ StreamReadFull
    \/ Return

SpecInject == InitInject /\ [][NextInject]_vars

(* One reply read by ready() on a buffer of any capacity up to BufCap, with *)
(* the calls of stream.read counted; in SpecCountFair every call of read    *)
(* returns.                                                                 *)
InitCount == (\E n \in 0..BufCap : SessionInit(Zeros(n), "count")) /\ DotIdle /\ PureIdle

ReadReturns == StreamEof \/ StreamReadFull \/ StreamRead

SpecCount == InitCount /\ [][NextReader]_vars

SpecCountFair == SpecCount /\ WF_vars(ReadReturns)

(* send_message alone, with optional headers set and not set, on a buffer   *)
(* of BufCap bytes or on one too small for any reply line.                  *)
InitMessage ==
    /\ \E n \in {BufCap, BufCap \div 2 - 1} : SessionInit(Zeros(n), "message")
    /\ DotIdle
    /\ PureIdle

NextMessage ==
    \/ send_message
    \/ StreamRead
    \/ StreamEof
    \/ StreamReadFull
    \/ Return

SpecMessage == InitMessage /\ [][NextMessage]_vars

(* The body writer of send_message applied to every body of up to MaxBody   *)
(* bytes over '.', CR, LF and a letter.                                     *)
BodyBytes == {DOT, CR, LF, LetterA}
Bodies == UNION {[1..n -> BodyBytes] : n \in 0..MaxBody}

WriteBody ==
    /\ dpc = "start"
    /\ out' = Bytes(BodyWrites(body))
    /\ dpc' = "done"
    /\ UNCHANGED body
    /\ UNCHANGED sessionVars
    /\ UNCHANGED pureVars

InitDot ==
    /\ SessionInit(Zeros(BufCap), "command")
    /\ body \in Bodies
    /\ out = <<>>
    /\ dpc = "start"
    /\ PureIdle

NextDot == WriteBody

(* send_message from its header checks on, without the envelope: nothing   *)
(* for a message that fails a check, and else what it writes after 354.     *)
WriteData ==
    /\ dpc = "start"
    /\ IF check_headers(args.message) # ""
       THEN out' = <<>> /\ dpc' = "refused"
       ELSE out' = Bytes(MessageWrites(args.message)) /\ dpc' = "done"
    /\ UNCHANGED body
    /\ UNCHANGED sessionVars
    /\ UNCHANGED pureVars

InitData ==
    /\ SessionInit(Zeros(BufCap), "data")
    /\ body = <<>>
    /\ out = <<>>
    /\ dpc = "start"
    /\ PureIdle

NextData == WriteData

SpecData == InitData /\ [][NextData]_vars

SpecDot == InitDot /\ [][NextDot]_vars

----------------------------------------------------------------------------
(* TokioIo::write_multi (src/src/integrations/tokio.rs) alone, on every     *)
(* list of up to MaxSlices slices, over a transport whose write_vectored    *)
(* may take any part of what it is given.                                   *)
PER_LOOP == 6
MaxSlices == 7

SliceSet == {<<>>, <<LetterA>>, <<LetterX, LetterA>>}
SliceLists == UNION {[1..n -> SliceSet] : n \in 0..MaxSlices}

(* usize::div_ceil *)
div_ceil(a, b) == (a + b - 1) \div b

(* The array built by array::from_fn for loop l: PER_LOOP slices from       *)
(* l * PER_LOOP on, an empty slice where buf has none.                      *)
from_fn(b, l) ==
    [i \in 1..PER_LOOP |-> IF l * PER_LOOP + (i - 1) < Len(b) THEN b[l * PER_LOOP + i] ELSE <<>>]

(* last_used_slice: how many slices precede the first empty one.            *)
RECURSIVE last_used_slice(_)
last_used_slice(ss) ==
    IF ss = <<>> \/ Head(ss) = <<>> THEN 0 ELSE 1 + last_used_slice(Tail(ss))

(* &mut slices[..last_used_slice] *)
used_slices(b, l) == SubSeq(from_fn(b, l), 1, last_used_slice(from_fn(b, l)))

(* IoSlice::advance_slices: the slices wholly written are dropped, and the  *)
(* next one loses what was written of it.                                   *)
RECURSIVE advance_slices(_, _)
advance_slices(bufs, n) ==
    IF bufs = <<>> THEN <<>>
    ELSE IF n >= Len(Head(bufs)) THEN advance_slices(Tail(bufs), n - Len(Head(bufs)))
    ELSE <<SubSeq(Head(bufs), n + 1, Len(Head(bufs)))>> \o Tail(bufs)

(* What write_vectored may return for these slices: 0 for nothing to        *)
(* write, else any count from 1 to their total length.                      *)
Written(bufs) ==
    IF Len(Concat(bufs)) = 0 THEN {0} ELSE 1..Len(Concat(bufs))

(* TokioIo::write_single on each slice: write_all of the non-empty ones.    *)
RECURSIVE write_each(_)
write_each(b) == IF b = <<>> THEN <<>> ELSE Head(b) \o write_each(Tail(b))

(* write_multi is entered: the sequential branch runs to its end, the       *)
(* vectored branch reaches the head of its for loop.                        *)
TokioWriteMulti ==
    /\ wm.pc = "call"
    /\ IF ~wm.vectored \/ Len(wm.buf) = 1
       THEN wm' = [wm EXCEPT !.wire = @ \o write_each(wm.buf), !.pc = "done"]
       ELSE wm' = [wm EXCEPT !.l = 0, !.pc = "for"]
    /\ UNCHANGED <<sessionVars, dotVars, ex, eh, ll>>

(* The head of `for l in 0..loops` and the slices of this loop.             *)
TokioForLoop ==
    /\ wm.pc = "for"
    /\ IF wm.l < div_ceil(Len(wm.buf), PER_LOOP)
       THEN wm' = [wm EXCEPT !.slices = used_slices(wm.buf, wm.l), !.pc = "write"]
       ELSE wm' = [wm EXCEPT !.pc = "done"]
    /\ UNCHANGED <<sessionVars, dotVars, ex, eh, ll>>

(* One turn of the inner loop: write_vectored, advance_slices, the break.   *)
TokioWriteVectored ==
    /\ wm.pc = "write"
    /\ \E written \in Written(wm.slices) :
        wm' = [wm EXCEPT !.wire = @ \o SubSeq(Concat(wm.slices), 1, written),
                         !.slices = advance_slices(wm.slices, written),
                         !.l = IF advance_slices(wm.slices, written) = <<>> THEN @ + 1 ELSE @,
                         !.pc = IF advance_slices(wm.slices, written) = <<>>
                                THEN "for" ELSE "write"]
    /\ UNCHANGED <<sessionVars, dotVars, ex, eh, ll>>

InitWrite ==
    /\ SessionInit(Zeros(BufCap), "command")
    /\ DotIdle
    /\ ex = ExIdle
    /\ eh = EhIdle
    /\ ll = LlIdle
    /\ \E b \in SliceLists, v \in BOOLEAN :
        wm = [buf |-> b, vectored |-> v, l |-> 0, slices |-> <<>>, wire |-> <<>>, pc |-> "call"]

NextWrite ==
    \/ TokioWriteMulti
    \/ TokioForLoop
    \/ TokioWriteVectored

SpecWrite == InitWrite /\ [][NextWrite]_vars

----------------------------------------------------------------------------
(* Extensions (src/src/smtp.rs): a value is [tag, a, b], with a the         *)
(* mechanisms of Auth or the name of Other, and b the args of Other.        *)
StartTls == [tag |-> "StartTls", a |-> <<>>, b |-> <<>>]
Auth(mechanisms) == [tag |-> "Auth", a |-> mechanisms, b |-> <<>>]
Other(name, arg) == [tag |-> "Other", a |-> name, b |-> arg]

KW_STARTTLS == <<83, 84, 65, 82, 84, 84, 76, 83>>
KW_AUTH == <<65, 85, 84, 72>>

IsUpper(c) == c >= 65 /\ c <= 90
IsLower(c) == c >= 97 /\ c <= 122
to_ascii_lowercase(c) == IF IsUpper(c) THEN c + 32 ELSE c

(* str::eq_ignore_ascii_case *)
eq_ignore_ascii_case(x, y) ==
    /\ Len(x) = Len(y)
    /\ \A i \in 1..Len(x) : to_ascii_lowercase(x[i]) = to_ascii_lowercase(y[i])

(* Index of the first byte d of s at or after i, or 0.                      *)
RECURSIVE find(_, _, _)
find(s, d, i) ==
    IF i > Len(s) THEN 0 ELSE IF s[i] = d THEN i ELSE find(s, d, i + 1)

(* Index of the last byte d of s at or before i, or 0.                      *)
RECURSIVE rfind(_, _, _)
rfind(s, d, i) ==
    IF i < 1 THEN 0 ELSE IF s[i] = d THEN i ELSE rfind(s, d, i - 1)

(* Variant: the line is split at its last space.                            *)
rsplit_once(s) ==
    IF rfind(s, SP, Len(s)) = 0 THEN <<s, <<>>>>
    ELSE <<SubSeq(s, 1, rfind(s, SP, Len(s)) - 1), SubSeq(s, rfind(s, SP, Len(s)) + 1, Len(s))>>

(* s.split_once(' ').unwrap_or((s, "")) *)
split_once(s) ==
    IF find(s, SP, 1) = 0 THEN <<s, <<>>>>
    ELSE <<SubSeq(s, 1, find(s, SP, 1) - 1), SubSeq(s, find(s, SP, 1) + 1, Len(s))>>

(* Extensions::from_str *)
from_str(s) ==
    IF eq_ignore_ascii_case(split_once(s)[1], KW_STARTTLS) THEN StartTls
    ELSE IF eq_ignore_ascii_case(split_once(s)[1], KW_AUTH) THEN Auth(split_once(s)[2])
    ELSE Other(split_once(s)[1], split_once(s)[2])

(* Reply::current_line *)
current_line(r) == Slice(r.rem, 0, r.message_len)

(* Variant: the hostname ends at the last space of the line.                *)
Ready_new_rsplit(reply) ==
    [hostname |-> rsplit_once(current_line(reply))[1], reply |-> reply]

(* Ready::new *)
Ready_new(reply) ==
    [hostname |-> split_once(current_line(reply))[1], reply |-> reply]

(* Ready::hostname *)
hostname(r) == r.hostname

(* Extensions::from_str alone, on lines made of a keyword and a tail; the   *)
(* server may write the letters of the keyword in either case.              *)
Keywords == {<<>>, KW_STARTTLS, KW_AUTH, <<83, 73, 90, 69>>, <<65, 85, 84, 72, 83>>}
Tails == {<<>>, <<32>>, <<32, 80, 76, 65, 73, 78>>,
          <<32, 112, 108, 97, 105, 110, 32, 76, 79, 71, 73, 78>>, <<32, 32, 49>>}

(* c in the other case. *)
swap_case(c) == IF IsUpper(c) THEN c + 32 ELSE IF IsLower(c) THEN c - 32 ELSE c

(* The server's line has one letter of its keyword in the other case.       *)
Recase ==
    /\ ex.pc = "start"
    /\ \E i \in 1..Len(split_once(ex.line)[1]) :
        /\ IsUpper(ex.line[i]) \/ IsLower(ex.line[i])
        /\ ex' = [ex EXCEPT !.line[i] = swap_case(@)]
    /\ UNCHANGED <<sessionVars, dotVars, wm, eh, ll>>

ExtensionsFromStr ==
    /\ ex.pc = "start"
    /\ ex' = [ex EXCEPT !.parsed = from_str(ex.line), !.pc = "done"]
    /\ UNCHANGED <<sessionVars, dotVars, wm, eh, ll>>

InitExt ==
    /\ SessionInit(Zeros(BufCap), "command")
    /\ DotIdle
    /\ wm = WmIdle
    /\ eh = EhIdle
    /\ ll = LlIdle
    /\ \E k \in Keywords, t \in Tails :
        ex = [orig |-> k \o t, line |-> k \o t, parsed |-> <<>>, pc |-> "start"]

NextExt ==
    \/ Recase
    \/ ExtensionsFromStr

SpecExt == InitExt /\ [][NextExt]_vars

----------------------------------------------------------------------------
(* EhloResponse::supports alone, on replies of up to MaxEhloLines lines.    *)
MaxEhloLines == 3
TAB == 9

(* char::is_whitespace on ASCII *)
is_whitespace(c) == c = SP \/ (c >= TAB /\ c <= CR)

(* str::split_whitespace: the maximal runs of non-whitespace, in order.     *)
RECURSIVE split_whitespace(_, _)
split_whitespace(s, cur) ==
    IF s = <<>> THEN (IF cur = <<>> THEN <<>> ELSE <<cur>>)
    ELSE IF is_whitespace(Head(s))
    THEN (IF cur = <<>> THEN <<>> ELSE <<cur>>) \o split_whitespace(Tail(s), <<>>)
    ELSE split_whitespace(Tail(s), Append(cur, Head(s)))

(* Variant: the greeting line is parsed as an extension too.                *)
extensions_with_greeting(ls) == [i \in 1..Len(ls) |-> from_str(ls[i])]

(* EhloResponse::extensions: lines().skip(1).map(Extensions::from_str)      *)
extensions(ls) == [i \in 1..(Len(ls) - 1) |-> from_str(ls[i + 1])]

(* The closure of supports: whether the listed e answers the query ext.     *)
supports_match(e, ext) ==
    IF e.tag = "Auth" /\ ext.tag = "Auth"
    THEN IF ext.a = <<>> THEN TRUE
         ELSE \E j \in 1..Len(split_whitespace(e.a, <<>>)) :
                  eq_ignore_ascii_case(split_whitespace(e.a, <<>>)[j], ext.a)
    ELSE e = ext

(* EhloResponse::supports *)
supports(ls, ext) ==
    \E i \in 1..Len(extensions(ls)) : supports_match(extensions(ls)[i], ext)

EhloTexts ==
    {<<109, 97, 105, 108>>,
     KW_STARTTLS,
     <<115, 116, 97, 114, 116, 116, 108, 115, 32, 49>>,
     KW_AUTH,
     <<65, 85, 84, 72, 32, 80, 76, 65, 73, 78, 32, 76, 79, 71, 73, 78>>,
     <<97, 117, 116, 104, 32, 32, 112, 108, 97, 105, 110, 9, 76, 79, 71, 73, 78>>,
     <<83, 73, 90, 69, 32, 49>>,
     <<115, 105, 122, 101, 32, 49>>}
EhloReplies == UNION {[1..n -> EhloTexts] : n \in 1..MaxEhloLines}

Queries ==
    {StartTls,
     Auth(<<>>),
     Auth(<<80, 76, 65, 73, 78>>),
     Auth(<<108, 111, 103, 105, 110>>),
     Auth(<<80, 76, 65>>),
     Auth(<<80, 76, 65, 73, 78, 32, 76, 79, 71, 73, 78>>),
     Other(<<83, 73, 90, 69>>, <<49>>),
     Other(<<83, 73, 90, 69>>, <<>>),
     Other(KW_AUTH, <<80, 76, 65, 73, 78, 32, 76, 79, 71, 73, 78>>),
     Other(KW_STARTTLS, <<>>)}

EhloSupports ==
    /\ eh.pc = "start"
    /\ eh' = [eh EXCEPT !.supported = supports(eh.lines, eh.ext), !.pc = "done"]
    /\ UNCHANGED <<sessionVars, dotVars, wm, ex, ll>>

InitEhlo ==
    /\ SessionInit(Zeros(BufCap), "command")
    /\ DotIdle
    /\ wm = WmIdle
    /\ ex = ExIdle
    /\ ll = LlIdle
    /\ \E ls \in EhloReplies, q \in Queries :
        eh = [lines |-> ls, ext |-> q, supported |-> <<>>, pc |-> "start"]

NextEhlo == EhloSupports

SpecEhlo == InitEhlo /\ [][NextEhlo]_vars

----------------------------------------------------------------------------
(* Reply lines too long for their bytes to be enumerated.  The text of a    *)
(* line is a sequence of runs [c, n]: the character c, given by its UTF-8   *)
(* bytes, n times.  The region of the buffer that holds the reply is a      *)
(* sequence of segments: runs, and explicit bytes [bytes] for the header    *)
(* fields and the line terminators.  The texts are valid UTF-8 and hold no  *)
(* CR or LF, and the buffer has room for the whole reply, so read_line      *)
(* finds the CRLF of each line at the end of its text.                      *)
MaxLongLines == 2
LongSlack == 2
U16Range == 65536

CharA == <<LetterA>>
CharE == <<195, 169>>
Run(c, n) == IF n = 0 THEN <<>> ELSE <<[k |-> "r", c |-> c, n |-> n, bytes |-> <<>>]>>
Explicit(b) == [k |-> "b", c |-> <<>>, n |-> 0, bytes |-> b]

SegLen(g) == IF g.k = "b" THEN Len(g.bytes) ELSE Len(g.c) * g.n
RECURSIVE SegsLen(_)
SegsLen(segs) == IF segs = <<>> THEN 0 ELSE SegLen(Head(segs)) + SegsLen(Tail(segs))

(* buf[off] of the region segs.                                             *)
RECURSIVE ByteAt(_, _)
ByteAt(segs, off) ==
    IF off >= SegLen(Head(segs)) THEN ByteAt(Tail(segs), off - SegLen(Head(segs)))
    ELSE IF Head(segs).k = "b" THEN Head(segs).bytes[off + 1]
    ELSE Head(segs).c[(off % Len(Head(segs).c)) + 1]

(* core::str::from_utf8(&buf[a..b]).is_ok() on the region segs: each part   *)
(* of a run must begin and end between two characters, and the explicit     *)
(* bytes must be valid by themselves; no character reaches from one         *)
(* segment into the next, since a run begins with the first byte of a       *)
(* character and the explicit bytes after a run begin with CR.              *)
RECURSIVE SliceValid(_, _, _)
SliceValid(segs, a, b) ==
    IF a >= b THEN TRUE
    ELSE IF segs = <<>> THEN FALSE
    ELSE IF a >= SegLen(Head(segs))
    THEN SliceValid(Tail(segs), a - SegLen(Head(segs)), b - SegLen(Head(segs)))
    ELSE /\ IF Head(segs).k = "b"
            THEN Utf8Valid(SubSeq(Head(segs).bytes, a + 1, Min(b, SegLen(Head(segs)))))
            ELSE /\ a % Len(Head(segs).c) = 0
                 /\ Min(b, SegLen(Head(segs))) % Len(Head(segs).c) = 0
         /\ SliceValid(Tail(segs), 0, b - SegLen(Head(segs)))

(* The text lengths and the texts tried: lengths near 0 and near 2^16, of   *)
(* letters, of two-byte characters, and of both.                            *)
LongLens == (0..LongSlack + 1) \cup (U16Range - 1..U16Range + LongSlack)
TextsOf(n) ==
    {Run(CharA, n)}
    \cup (IF n > 0 /\ n % 2 = 0 THEN {Run(CharE, n \div 2)} ELSE {})
    \cup (IF n >= 3 /\ n % 2 = 1
          THEN {Run(CharE, (n - 1) \div 2) \o Run(CharA, 1),
                Run(CharA, 1) \o Run(CharE, (n - 1) \div 2)}
          ELSE {})
LongTexts == UNION {TextsOf(n) : n \in LongLens}
ShortTexts == {Run(CharA, 0), Run(CharA, 1), Run(CharA, U16Range)}
LongReplies ==
    {<<t>> : t \in LongTexts}
    \cup UNION {{<<t>> \o r : t \in LongTexts, r \in [1..n -> ShortTexts]} : n \in 1..MaxLongLines - 1}

(* consume_until_newline_and_write_len_header on a line with the text t:    *)
(* the two bytes it stores before the text.                                 *)
len_header(t) == U16ToNeBytes(AsU16(SegsLen(t)))

(* The region after read_multiline_reply has read the lines ls with the     *)
(* status code: code and first length at 0..4, and between two texts CR,    *)
(* LF, two digits of the next line's code and its length.                   *)
RECURSIVE LaterLines(_, _)
LaterLines(ls, code) ==
    IF ls = <<>> THEN <<Explicit(CRLF)>>
    ELSE <<Explicit(CRLF \o SubSeq(CodeBytes(code), 1, 2) \o len_header(Head(ls)))>>
         \o Head(ls) \o LaterLines(Tail(ls), code)

LongRegion(ls, code) ==
    <<Explicit(U16ToNeBytes(code) \o len_header(Head(ls)))>> \o Head(ls)
    \o LaterLines(Tail(ls), code)

(* read_multiline_reply returns Reply::from_buffer of the region.           *)
LongRead ==
    /\ ll.pc = "call"
    /\ \E segs \in {LongRegion(ll.lines, ll.code)} :
        IF SegsLen(segs) - 4 < U16FromNeBytes(ByteAt(segs, 2), ByteAt(segs, 3))
        THEN ll' = [ll EXCEPT !.segs = segs, !.pc = "panicked", !.panic = "from_buffer"]
        ELSE ll' = [ll EXCEPT !.segs = segs,
                              !.code = U16FromNeBytes(ByteAt(segs, 0), ByteAt(segs, 1)),
                              !.message_len = U16FromNeBytes(ByteAt(segs, 2), ByteAt(segs, 3)),
                              !.off = 4,
                              !.len = SegsLen(segs) - 4,
                              !.pc = "reply"]
    /\ UNCHANGED <<sessionVars, dotVars, wm, ex, eh>>

(* ready(), after read_multiline_reply: the code check, and Ready::new,     *)
(* whose current_line expects the first message_len bytes to be UTF-8.      *)
LongReady ==
    /\ ll.pc = "reply"
    /\ ll.items = <<>>
    /\ IF ll.code # 220 THEN ll' = [ll EXCEPT !.pc = "refused"]
       ELSE IF SliceValid(ll.segs, ll.off, ll.off + ll.message_len)
       THEN ll' = [ll EXCEPT !.pc = "ready"]
       ELSE ll' = [ll EXCEPT !.pc = "panicked", !.panic = "current_line"]
    /\ UNCHANGED <<sessionVars, dotVars, wm, ex, eh>>

(* Reply::next, called by the caller that iterates lines().                 *)
LongNext ==
    /\ ll.pc = "reply"
    /\ IF ll.len = 0 THEN ll' = [ll EXCEPT !.pc = "end"]
       ELSE IF ll.message_len > ll.len
       THEN ll' = [ll EXCEPT !.pc = "panicked", !.panic = "split_at"]
       ELSE IF ~SliceValid(ll.segs, ll.off, ll.off + ll.message_len)
       THEN ll' = [ll EXCEPT !.pc = "panicked", !.panic = "next"]
       ELSE IF ll.len - ll.message_len < 6
       THEN ll' = [ll EXCEPT !.items = Append(@, [off |-> ll.off, len |-> ll.message_len]),
                             !.off = ll.off + ll.len, !.len = 0, !.message_len = 0]
       ELSE ll' = [ll EXCEPT !.items = Append(@, [off |-> ll.off, len |-> ll.message_len]),
                             !.off = ll.off + ll.message_len + 6,
                             !.len = ll.len - ll.message_len - 6,
                             !.message_len =
                                 U16FromNeBytes(ByteAt(ll.segs, ll.off + ll.message_len + 4),
                                                ByteAt(ll.segs, ll.off + ll.message_len + 5))]
    /\ UNCHANGED <<sessionVars, dotVars, wm, ex, eh>>

InitLong ==
    /\ SessionInit(Zeros(BufCap), "command")
    /\ DotIdle
    /\ wm = WmIdle
    /\ ex = ExIdle
    /\ eh = EhIdle
    /\ \E ls \in LongReplies, code \in {220, 250} :
        ll = [LlIdle EXCEPT !.lines = ls, !.code = code, !.pc = "call"]

NextLong ==
    \/ LongRead
    \/ LongReady
    \/ LongNext

SpecLong == InitLong /\ [][NextLong]_vars

----------------------------------------------------------------------------
(* The wire format of a reply, read off the bytes the server sent rather    *)
(* than off the buffer: lines end at CRLF, each is three digits, a marker   *)
(* and text.                                                                *)

(* Index of the CR of the first CRLF of w at or after i, or 0.              *)
RECURSIVE FirstCRLF(_, _)
FirstCRLF(w, i) ==
    IF i + 1 > Len(w) THEN 0
    ELSE IF w[i] = CR /\ w[i + 1] = LF THEN i
    ELSE FirstCRLF(w, i + 1)

(* w cut after the CR at index k into its first line and the rest.          *)
RECURSIVE WireLines(_)
RECURSIVE WireLinesAt(_, _)
WireLinesAt(w, k) ==
    IF k = 0 THEN <<w>>
    ELSE <<SubSeq(w, 1, k - 1)>> \o WireLines(SubSeq(w, k + 2, Len(w)))

(* The lines of w without their CRLF; an unterminated tail is a last item.  *)
WireLines(w) == IF w = <<>> THEN <<>> ELSE WireLinesAt(w, FirstCRLF(w, 1))

(* w is a sequence of CRLF-terminated lines.                                *)
Terminated(w) ==
    Len(w) >= 2 /\ w[Len(w) - 1] = CR /\ w[Len(w)] = LF

NoTerminatorByte(t) == \A i \in 1..Len(t) : t[i] # CR /\ t[i] # LF

WireHeaderOk(l) ==
    /\ Len(l) >= 4
    /\ IsDigit(l[1]) /\ IsDigit(l[2]) /\ IsDigit(l[3])
    /\ l[4] \in {SP, DASH}

WireLineOk(l) ==
    /\ WireHeaderOk(l)
    /\ NoTerminatorByte(SubSeq(l, 5, Len(l)))
    /\ Utf8Valid(SubSeq(l, 5, Len(l)))

WireCode(l) == 100 * (l[1] - ZERO) + 10 * (l[2] - ZERO) + (l[3] - ZERO)

(* Lines that are all continuation lines 'DDD-text' with one code.          *)
ContinuationLines(ls) ==
    \A i \in 1..Len(ls) :
        WireLineOk(ls[i]) /\ ls[i][4] = DASH /\ WireCode(ls[i]) = WireCode(ls[1])

(* ls is a reply: lines 'DDD-text' and a last line 'DDD text', one code.    *)
WellFormedLines(ls) ==
    /\ Len(ls) >= 1
    /\ \A i \in 1..Len(ls) :
        /\ WireLineOk(ls[i])
        /\ WireCode(ls[i]) = WireCode(ls[1])
        /\ ls[i][4] = (IF i = Len(ls) THEN SP ELSE DASH)

WellFormedReply(w) == Terminated(w) /\ WellFormedLines(WireLines(w))

WireTexts(ls) == [i \in 1..Len(ls) |-> SubSeq(ls[i], 5, Len(ls[i]))]

(* The bytes of the reply that read_multiline_reply consumed, and the       *)
(* region of the buffer the Reply it returned borrows.                      *)
Wire == Slice(raw, 0, unprocessed.start)
Region == Slice(buf, 0, unprocessed.start)

(* read_multiline_reply returned Ok(reply) to the command that has ended.   *)
ReaderReturnedOk ==
    /\ pc = "done"
    /\ cmd \notin {"", "fast_quit"}
    /\ result = Ok \/ result.err = "UnexpectedCode"

(* read_multiline_reply built the Reply of the bytes in Wire: it returned   *)
(* it, or Reply::from_buffer panicked on the way.                           *)
ReplyBuilt ==
    \/ ReaderReturnedOk
    \/ pc = "panicked" /\ Len(io) >= 1 /\ io[Len(io)].k = "r"

----------------------------------------------------------------------------
(* C1: for a well-formed reply that fits the buffer, once                   *)
(* read_multiline_reply has returned Ok, Reply::lines() yields the text of  *)
(* each line of the reply as the server sent it, in order, byte for byte,   *)
(* one item per line; an empty text is an empty item, not the end.          *)
C1_LinesRoundTrip ==
    (ReplyBuilt /\ WellFormedReply(Wire)) =>
        /\ pc = "done"
        /\ lines(from_buffer(Region)) = [panic |-> FALSE, items |-> WireTexts(WireLines(Wire))]

(* A two-line reply read to its end: an empty first text, then "a".         *)
C1_Witness ==
    /\ ReaderReturnedOk
    /\ WellFormedReply(Wire)
    /\ lines(from_buffer(Region)).items = <<<<>>, <<LetterA>>>>

----------------------------------------------------------------------------
(* The step the k-th reply of a command answers, and the code the          *)
(* documentation gives for it.                                              *)
ClaimedStep(c, nrcpt, k) ==
    IF c \notin {"send_mail", "send_message"} THEN "REPLY"
    ELSE IF k = 1 THEN "MAIL"
    ELSE IF k <= 1 + nrcpt THEN "RCPT"
    ELSE IF k = nrcpt + 2 THEN "DATA"
    ELSE "EOD"

ClaimedCode(c, s) ==
    CASE c = "ready" -> 220
      [] c = "ehlo" -> 250
      [] c = "starttls" -> 220
      [] c = "auth" -> 235
      [] c = "quit" -> 221
      [] OTHER -> IF s = "DATA" THEN 354 ELSE 250

(* How many replies io[1..i] holds.                                         *)
RepliesUpTo(i) == Cardinality({j \in 1..i : io[j].k = "r"})

ClaimedCodeAt(i) == ClaimedCode(cmd, ClaimedStep(cmd, Len(args.to), RepliesUpTo(i)))

(* C2: a step whose reply is well-formed succeeds exactly when the reply    *)
(* code is the one code the step expects (ready 220, ehlo 250, starttls     *)
(* 220, auth 235, quit 221, MAIL 250, RCPT 250, DATA 354, end of data 250): *)
(* the command goes on to its next step, or returns Ok after its last;      *)
(* with any other code it returns UnexpectedCode{expected, actual}.         *)
C2_StepCodes ==
    \A i \in 1..Len(io) :
        (io[i].k = "r" /\ WellFormedReply(io[i].bytes)) =>
            IF WireCode(io[i].bytes) = ClaimedCodeAt(i)
            THEN i = Len(io) => (pc = "done" /\ result = Ok)
            ELSE /\ i = Len(io)
                 /\ pc = "done"
                 /\ result = UnexpectedCode(ClaimedCodeAt(i), WireCode(io[i].bytes))

(* send_mail got 250 where DATA expects 354, after MAIL and RCPT went well. *)
C2_Witness ==
    /\ cmd = "send_mail"
    /\ Len(args.to) = 1
    /\ pc = "done"
    /\ Len(io) = 6
    /\ result = UnexpectedCode(354, 250)

----------------------------------------------------------------------------
(* C3: on the Reply that read_multiline_reply returns, replies() marks      *)
(* exactly the last line with is_last = true and every other line false.    *)
C3_IsLastOnLastLine ==
    ReaderReturnedOk =>
        /\ ~replies(from_buffer(Region)).panic
        /\ \A i \in 1..Len(replies(from_buffer(Region)).items) :
            replies(from_buffer(Region)).items[i].is_last
                = (i = Len(replies(from_buffer(Region)).items))

----------------------------------------------------------------------------
(* The bytes of the first n lines of ls with their CRLFs.                   *)
WireLen(ls, n) == IF n = 0 THEN 0 ELSE Len(Concat([i \in 1..n |-> ls[i] \o CRLF]))

(* Line n of ls is complete and well-formed, lines 1..n-1 are continuation  *)
(* lines with one code, and line n has another code.                        *)
CodeChangesAt(w, ls, n) ==
    /\ n >= 2
    /\ n <= Len(ls)
    /\ Len(w) >= WireLen(ls, n)
    /\ ContinuationLines(SubSeq(ls, 1, n - 1))
    /\ WireLineOk(ls[n])
    /\ WireCode(ls[n]) # WireCode(ls[1])

(* C4: when line N > 1 of a reply is a complete line whose code d differs   *)
(* from the code c of the lines before it, the command fails with           *)
(* CodeChanged{old_code: c, new_code: d} whatever code it expected, and     *)
(* reads no line after line N.                                              *)
C4_CodeChanged ==
    \A n \in 2..MaxLines :
        (pc \in {"reading", "done"} /\ CodeChangesAt(raw, WireLines(raw), n)) =>
            /\ pc = "done"
            /\ result = CodeChanged(WireCode(WireLines(raw)[1]), WireCode(WireLines(raw)[n]))
            /\ unprocessed.start = WireLen(WireLines(raw), n)

(* ehlo expects 250; the reply changes from 250 to 550 on line 2, and a     *)
(* byte of a third line is already in the buffer behind it.                 *)
C4_Witness ==
    /\ cmd = "ehlo"
    /\ pc = "done"
    /\ CodeChangesAt(raw, WireLines(raw), 2)
    /\ result = CodeChanged(250, 550)
    /\ unprocessed.end > unprocessed.start

----------------------------------------------------------------------------
(* i is a bare LF of w, or a CR of w followed by a byte that is not LF.     *)
BareAt(w, i) ==
    \/ w[i] = LF /\ (i = 1 \/ w[i - 1] # CR)
    \/ w[i] = CR /\ i < Len(w) /\ w[i + 1] # LF

Bares(w) == {i \in 1..Len(w) : BareAt(w, i)}
HasBare(w) == Bares(w) # {}
FirstBare(w) == CHOOSE i \in Bares(w) : \A j \in Bares(w) : i <= j

(* Where the line holding index k starts: after the last LF before k.       *)
LineStart(w, k) ==
    IF \E j \in 1..(k - 1) : w[j] = LF
    THEN 1 + CHOOSE j \in 1..(k - 1) : w[j] = LF /\ \A h \in (j + 1)..(k - 1) : w[h] # LF
    ELSE 1

BadLineStart(w) == LineStart(w, FirstBare(w))
(* The position in its line, from 1, of the first bare CR or LF of w.       *)
BadOffset(w) == FirstBare(w) - BadLineStart(w) + 1
BadLine(w) == SubSeq(w, BadLineStart(w), Len(w))

(* The first bare CR or LF of w is in a line the reader gets to: the lines  *)
(* before it are continuation lines with one code.                          *)
BareInReadLine(w) ==
    /\ HasBare(w)
    /\ ContinuationLines(WireLines(SubSeq(w, 1, BadLineStart(w) - 1)))

----------------------------------------------------------------------------
(* The headers of a message in the order send_message is documented to     *)
(* check them, each with its optional value.                                *)
ClaimedHeaders(m) ==
    <<[name |-> "From", value |-> Some(m.from)],
      [name |-> "Message-ID", value |-> Some(m.message_id)],
      [name |-> "To", value |-> m.to],
      [name |-> "Cc", value |-> m.cc],
      [name |-> "Bcc", value |-> m.bcc],
      [name |-> "Reply-To", value |-> m.reply_to],
      [name |-> "Subject", value |-> m.subject],
      [name |-> "In-Reply-To", value |-> m.in_reply_to],
      [name |-> "References", value |-> m.references]>>

HasCRLF(v) == \E i \in 1..(Len(v) - 1) : v[i] = CR /\ v[i + 1] = LF

Offenders(m) ==
    {i \in 1..Len(ClaimedHeaders(m)) :
        ClaimedHeaders(m)[i].value # None /\ HasCRLF(ClaimedHeaders(m)[i].value[1])}

FirstOffender(m) ==
    ClaimedHeaders(m)[CHOOSE i \in Offenders(m) : \A j \in Offenders(m) : i <= j].name

(* C6: called in any session state with a message one of whose header       *)
(* values contains CRLF, send_message returns InvalidHeader(name) for the   *)
(* first such header in the order From, Message-ID, To, Cc, Bcc, Reply-To,  *)
(* Subject, In-Reply-To, References; it writes nothing and reads nothing.   *)
C6_InvalidHeader ==
    [][(pc = "idle" /\ cmd' = "send_message" /\ Offenders(args'.message) # {}) =>
          /\ pc' = "done"
          /\ result' = InvalidHeader(FirstOffender(args'.message))
          /\ io' = <<>>
          /\ UNCHANGED <<buf, unprocessed, stream, raw>>]_vars

(* After an earlier command left its reply in the buffer, send_message got  *)
(* a message with CRLF in Cc and in Subject and named Cc.                   *)
C6_Witness ==
    /\ cmd = "send_message"
    /\ pc = "done"
    /\ Cardinality(Offenders(args.message)) = 2
    /\ result = InvalidHeader("Cc")
    /\ args.message.subject = Some(DirtyValue)
    /\ io = <<>>
    /\ buf # Zeros(Len(buf))

----------------------------------------------------------------------------
(* What a receiver makes of the data it got: one leading '.' taken off      *)
(* every CRLF-delimited line that begins with '.'.                          *)
RECURSIVE Unstuff(_, _, _)
Unstuff(s, i, atStart) ==
    IF i > Len(s) THEN <<>>
    ELSE IF atStart /\ s[i] = DOT THEN Unstuff(s, i + 1, FALSE)
    ELSE <<s[i]>> \o Unstuff(s, i + 1, s[i] = LF /\ i > 1 /\ s[i - 1] = CR)

(* Where the CRLF-delimited lines of s begin.                               *)
LineStarts(s) == {i \in 1..Len(s) : i = 1 \/ (i >= 3 /\ s[i - 2] = CR /\ s[i - 1] = LF)}
DotLines(s) == {i \in LineStarts(s) : s[i] = DOT}

(* C7: for the bytes dot_stuff(B) written for a body B: taking one leading  *)
(* '.' off every line that begins with '.' gives B back; no line begins     *)
(* with a single '.'; and each line of B that begins with '.' got exactly   *)
(* one more byte, with nothing lost.                                        *)
C7_DotStuffRoundTrip ==
    dpc = "done" =>
        /\ Unstuff(out, 1, TRUE) = body
        /\ \A i \in DotLines(out) : i < Len(out) /\ out[i + 1] = DOT
        /\ Len(out) = Len(body) + Cardinality(DotLines(body))

(* A body whose first line and whose second line are each a lone '.'.       *)
C7_Witness ==
    /\ dpc = "done"
    /\ body = <<DOT, CR, LF, DOT, CR, LF>>
    /\ out = <<DOT, DOT, CR, LF, DOT, DOT, CR, LF>>

----------------------------------------------------------------------------
(* The lines send_mail is documented to write, in order.                    *)
ClaimedMailLine(from) == <<77, 65, 73, 76, 32, 70, 82, 79, 77, 58, 60>> \o from \o <<62, 13, 10>>
ClaimedRcptLine(to) == <<82, 67, 80, 84, 32, 84, 79, 58, 60>> \o to \o <<62, 13, 10>>
ClaimedDataLine == <<68, 65, 84, 65, 13, 10>>
ClaimedData(data) == data \o <<13, 10, 46, 13, 10>>

ClaimedWrites(a) ==
    <<ClaimedMailLine(a.from)>>
    \o [i \in 1..Len(a.to) |-> ClaimedRcptLine(a.to[i])]
    \o <<ClaimedDataLine, ClaimedData(a.data)>>

(* The code the k-th reply must have for send_mail to go on.                *)
ClaimedReplyCode(nrcpt, k) == IF k = nrcpt + 2 THEN 354 ELSE 250

(* C8: send_mail writes MAIL FROM, one RCPT TO per recipient in order,      *)
(* DATA, then the data with CRLF.CRLF; a reply is read after each write;    *)
(* a write is made only after every reply before it had the expected code   *)
(* (250, 250 each, 354), so the data only after 354 to DATA; the first      *)
(* other code ends the call with an error; Ok comes after all the writes.   *)
C8_SendMailOrder ==
    cmd = "send_mail" =>
        /\ Len(io) <= 2 * Len(ClaimedWrites(args))
        /\ \A i \in 1..Len(io) :
            /\ io[i].k = (IF i % 2 = 1 THEN "w" ELSE "r")
            /\ i % 2 = 1 => io[i].bytes = ClaimedWrites(args)[(i + 1) \div 2]
            /\ (i % 2 = 0 /\ i < Len(io))
                   => WireCode(io[i].bytes) = ClaimedReplyCode(Len(args.to), i \div 2)
            /\ (i % 2 = 0 /\ i = Len(io)
                  /\ WireCode(io[i].bytes) # ClaimedCodeAt(i))
                   => (pc = "done" /\ result.err = "UnexpectedCode")
        /\ (pc = "done" /\ result = Ok) => Len(io) = 2 * Len(ClaimedWrites(args))

(* send_mail to two recipients went through: five writes, five replies.     *)
C8_Witness ==
    /\ cmd = "send_mail"
    /\ Len(args.to) = 2
    /\ pc = "done"
    /\ result = Ok
    /\ Len(io) = 10

----------------------------------------------------------------------------
(* The last reply before io[i], as an index into io, or 0.                  *)
LastReplyBefore(i) ==
    IF \E j \in 1..(i - 1) : io[j].k = "r"
    THEN CHOOSE j \in 1..(i - 1) : io[j].k = "r" /\ \A h \in (j + 1)..(i - 1) : io[h].k = "w"
    ELSE 0

(* C9: a command other than fast_quit that returns Ok or UnexpectedCode     *)
(* has read the complete reply, every continuation line through the line    *)
(* with the space marker, and nothing else since; and inside send_mail and  *)
(* send_message a write that follows another is made only when the reply    *)
(* before it was read completely and had the expected code, two command     *)
(* lines never being written without a reply read between them.             *)
C9_Sequential ==
    /\ ReaderReturnedOk =>
        /\ Len(io) >= 1
        /\ io[Len(io)].k = "r"
        /\ io[Len(io)].bytes = Wire
        /\ WellFormedReply(Wire)
    /\ \A i \in 2..Len(io) :
        io[i].k = "w" =>
            /\ LastReplyBefore(i) # 0
            /\ WellFormedReply(io[LastReplyBefore(i)].bytes)
            /\ WireCode(io[LastReplyBefore(i)].bytes) = ClaimedCodeAt(LastReplyBefore(i))
            /\ io[i - 1].k = "w" =>
                (cmd = "send_message" /\ RepliesUpTo(i) = Len(args.to) + 2)

(* send_message went through and one of its replies had two lines.          *)
C9_Witness ==
    /\ cmd = "send_message"
    /\ pc = "done"
    /\ result = Ok
    /\ \E i \in 1..Len(io) : io[i].k = "r" /\ Len(WireLines(io[i].bytes)) = 2

----------------------------------------------------------------------------
(* C10: when the buffer is full and the CRLF of the line being read has     *)
(* not been found, the reading command fails with LineTooLong.              *)
C10_LineTooLong ==
    [][(pc = "reading" /\ unprocessed.end = Len(buf)) =>
          (pc' = "done" /\ result' = Err("LineTooLong"))]_vars

----------------------------------------------------------------------------
(* The reply in raw is incomplete: the bytes received so far are not a      *)
(* sequence of CRLF-terminated lines that ends with a line 'DDD text'.      *)
Incomplete(w) ==
    \/ Len(w) < 4
    \/ ~Terminated(w)
    \/ Len(WireLines(w)[Len(WireLines(w))]) < 4
    \/ WireLines(w)[Len(WireLines(w))][4] # SP

(* C11: when the stream's read returns 0 while the reply is incomplete      *)
(* (fewer than 4 bytes, no CRLF yet, or no final line yet), the reading     *)
(* command fails with UnexpectedEof and unprocessed.end is not advanced.    *)
C11_UnexpectedEof ==
    [][(pc = "reading" /\ ~stream.eof /\ stream'.eof /\ Incomplete(raw)) =>
          /\ pc' = "done"
          /\ result' = Err("UnexpectedEof")
          /\ unprocessed'.end = unprocessed.end
          /\ unprocessed'.end = Len(raw')]_vars

(* The server sent "220 a" and closed before the CRLF.                      *)
C11_Witness ==
    /\ pc = "done"
    /\ stream.eof
    /\ raw = CodeBytes(220) \o <<SP, LetterA>>
    /\ result = Err("UnexpectedEof")
    /\ unprocessed.end = 5

----------------------------------------------------------------------------
(* The bytes of w from the start of line k of ls on.                        *)
FromLine(w, ls, k) == SubSeq(w, WireLen(ls, k - 1) + 1, Len(w))

(* Line k of w is one the reader gets to, the lines before it being         *)
(* continuation lines with one code, and n bytes of it have arrived.        *)
LineReached(w, k, n) ==
    /\ k <= Len(WireLines(w))
    /\ ContinuationLines(SubSeq(WireLines(w), 1, k - 1))
    /\ Len(FromLine(w, WireLines(w), k)) >= n

ThreeDigits(l) == IsDigit(l[1]) /\ IsDigit(l[2]) /\ IsDigit(l[3])

(* C12: whenever the first 3 bytes of a reply line are not all ASCII        *)
(* decimal digits (letters, a sign such as '+', others), read_line fails    *)
(* with NoCode.                                                             *)
C12_NoCode ==
    \A k \in 1..MaxLines :
        (pc \in {"reading", "done"} /\ LineReached(raw, k, 3)
            /\ ~ThreeDigits(FromLine(raw, WireLines(raw), k))) =>
                (pc = "done" /\ result = Err("NoCode"))

----------------------------------------------------------------------------
(* Line k of w has arrived with its CRLF.                                   *)
LineComplete(w, k) == Len(w) >= WireLen(WireLines(w), k)

(* No marker of a line after line k has arrived: line k is the last line    *)
(* whose marker read_line has matched.                                      *)
LastMarked(w, k) ==
    \/ k = Len(WireLines(w))
    \/ k + 1 = Len(WireLines(w)) /\ Len(WireLines(w)[k + 1]) < 4

----------------------------------------------------------------------------
(* C14: for every list of slices, lists with empty slices and lists of      *)
(* more than 6 slices included, TokioIo::write_multi delivers to the        *)
(* transport the concatenation of all the slices in order, which is what    *)
(* the default write_multi (write_single on each slice in turn) delivers.   *)
C14_WriteMultiDeliversAll ==
    wm.pc = "done" =>
        /\ wm.wire = Concat(wm.buf)
        /\ wm.wire = write_multi(wm.buf).bytes

----------------------------------------------------------------------------
(* The capacity the documentation asks of the buffer for AUTH PLAIN.        *)
ClaimedCapacity(u, p) == 2 + Len(u) + Len(p) + ((2 + Len(u) + Len(p) + 2) \div 3) * 4

(* Standard base64 with padding, by 24-bit groups over the alphabet         *)
(* A-Z a-z 0-9 + /.                                                         *)
Alphabet ==
    [i \in 1..26 |-> 64 + i] \o [i \in 1..26 |-> 96 + i] \o [i \in 1..10 |-> 47 + i] \o <<43, 47>>

Sextet(v, k) == Alphabet[((v \div (64 ^ (3 - k))) % 64) + 1]

RECURSIVE ClaimedBase64(_)
ClaimedBase64(s) ==
    IF Len(s) = 0 THEN <<>>
    ELSE IF Len(s) = 1
    THEN <<Sextet(65536 * s[1], 0), Sextet(65536 * s[1], 1), 61, 61>>
    ELSE IF Len(s) = 2
    THEN <<Sextet(65536 * s[1] + 256 * s[2], 0), Sextet(65536 * s[1] + 256 * s[2], 1),
           Sextet(65536 * s[1] + 256 * s[2], 2), 61>>
    ELSE <<Sextet(65536 * s[1] + 256 * s[2] + s[3], 0),
           Sextet(65536 * s[1] + 256 * s[2] + s[3], 1),
           Sextet(65536 * s[1] + 256 * s[2] + s[3], 2),
           Sextet(65536 * s[1] + 256 * s[2] + s[3], 3)>>
         \o ClaimedBase64(SubSeq(s, 4, Len(s)))

(* 'AUTH PLAIN ' base64(0x00 user 0x00 pass) CRLF *)
ClaimedAuthLine(u, p) ==
    <<65, 85, 84, 72, 32, 80, 76, 65, 73, 78, 32>>
        \o ClaimedBase64(<<0>> \o u \o <<0>> \o p) \o <<13, 10>>

(* C15: with a buffer of at least 2 + len(user) + len(pass) +               *)
(* ceil((2 + len(user) + len(pass)) / 3) * 4 bytes, auth(user, pass) writes  *)
(* 'AUTH PLAIN ', the padded base64 of 0x00 user 0x00 pass and CRLF, once    *)
(* and before it reads, and then succeeds exactly when the reply code is    *)
(* 235.                                                                     *)
C15_AuthPlain ==
    (cmd = "auth" /\ Len(buf) >= ClaimedCapacity(args.username, args.password)) =>
        /\ pc # "panicked"
        /\ Len(io) \in {1, 2}
        /\ io[1] = [k |-> "w", bytes |-> ClaimedAuthLine(args.username, args.password)]
        /\ Len(io) = 2 => io[2].k = "r"
        /\ pc = "reading" => Len(io) = 1
        /\ pc = "done" =>
              (result = Ok <=> (/\ Len(io) = 2
                                /\ WellFormedReply(io[2].bytes)
                                /\ WireCode(io[2].bytes) = 235))

(* auth("u", "p") on a buffer of just the 12 bytes asked for wrote          *)
(* "AUTH PLAIN AHUAcA==" and got 235.                                       *)
C15_Witness ==
    /\ cmd = "auth"
    /\ args.username = <<117>>
    /\ args.password = <<112>>
    /\ Len(buf) = 12
    /\ pc = "done"
    /\ result = Ok
    /\ io[1].bytes = <<65, 85, 84, 72, 32, 80, 76, 65, 73, 78, 32,
                       65, 72, 85, 65, 99, 65, 61, 61, 13, 10>>
    /\ WireCode(io[2].bytes) = 235

----------------------------------------------------------------------------
(* C16: with a buffer too small for the AUTH PLAIN plaintext and its        *)
(* base64, auth(user, pass) returns LineTooLong and writes nothing; it      *)
(* does not panic.                                                          *)
C16_AuthLineTooLong ==
    (cmd = "auth" /\ Len(buf) < ClaimedCapacity(args.username, args.password)) =>
        /\ pc = "done"
        /\ result = Err("LineTooLong")
        /\ io = <<>>

----------------------------------------------------------------------------
(* An extension line as the documentation reads it: the keyword is what     *)
(* precedes the first space, the args what follows it.                      *)
Spaces(l) == {i \in 1..Len(l) : l[i] = 32}
FirstSpace(l) == CHOOSE i \in Spaces(l) : \A j \in Spaces(l) : i <= j
ClaimedKeyword(l) == IF Spaces(l) = {} THEN l ELSE SubSeq(l, 1, FirstSpace(l) - 1)
ClaimedArgs(l) == IF Spaces(l) = {} THEN <<>> ELSE SubSeq(l, FirstSpace(l) + 1, Len(l))
Upper(x) == [i \in 1..Len(x) |-> IF x[i] >= 97 /\ x[i] <= 122 THEN x[i] - 32 ELSE x[i]]

ClaimedExtension(l) ==
    IF Upper(ClaimedKeyword(l)) = <<83, 84, 65, 82, 84, 84, 76, 83>>
    THEN [tag |-> "StartTls", a |-> <<>>, b |-> <<>>]
    ELSE IF Upper(ClaimedKeyword(l)) = <<65, 85, 84, 72>>
    THEN [tag |-> "Auth", a |-> ClaimedArgs(l), b |-> <<>>]
    ELSE [tag |-> "Other", a |-> ClaimedKeyword(l), b |-> ClaimedArgs(l)]

(* The whitespace-separated tokens of x.                                    *)
IsWs(c) == c \in {9, 10, 11, 12, 13, 32}
Tokens(x) ==
    {SubSeq(x, i, j) : <<i, j>> \in
        {<<i, j>> \in (1..Len(x)) \X (1..Len(x)) :
            /\ i <= j
            /\ \A h \in i..j : ~IsWs(x[h])
            /\ i = 1 \/ IsWs(x[i - 1])
            /\ j = Len(x) \/ IsWs(x[j + 1])}}

(* The extensions listed by a reply: its lines after the first.             *)
Listed(ls) == {ClaimedExtension(ls[i]) : i \in 2..Len(ls)}

(* C17: supports(ext) looks only at the lines after the greeting line and   *)
(* is true exactly when: for StartTls or Other(k, a), a listed extension    *)
(* equals ext; for Auth(""), an Auth is listed; for Auth(wanted) with a     *)
(* non-empty wanted, a listed Auth(mechs) has wanted among its              *)
(* whitespace-separated tokens, compared without regard to ASCII case.      *)
C17_Supports ==
    eh.pc = "done" =>
        eh.supported =
            IF eh.ext.tag # "Auth" THEN eh.ext \in Listed(eh.lines)
            ELSE IF eh.ext.a = <<>> THEN \E e \in Listed(eh.lines) : e.tag = "Auth"
            ELSE \E e \in Listed(eh.lines) :
                     /\ e.tag = "Auth"
                     /\ \E t \in Tokens(e.a) : Upper(t) = Upper(eh.ext.a)

(* The greeting line reads "AUTH PLAIN LOGIN" and the one line after it     *)
(* "auth  plain<TAB>LOGIN": Auth("PLA") is not supported.                   *)
C17_Witness ==
    /\ eh.pc = "done"
    /\ eh.lines = <<<<65, 85, 84, 72, 32, 80, 76, 65, 73, 78, 32, 76, 79, 71, 73, 78>>,
                    <<97, 117, 116, 104, 32, 32, 112, 108, 97, 105, 110, 9, 76, 79, 71, 73, 78>>>>
    /\ eh.ext = [tag |-> "Auth", a |-> <<80, 76, 65>>, b |-> <<>>]
    /\ eh.supported = FALSE

----------------------------------------------------------------------------
(* C18: from_str(line) splits the line at its first space into keyword and  *)
(* args, args being empty without a space; it returns StartTls when the     *)
(* keyword is STARTTLS in any ASCII case, whatever the args, Auth(args)     *)
(* when it is AUTH in any case, and Other(keyword, args) otherwise, args    *)
(* and the keyword of Other as they were; "" gives Other("", "").           *)
C18_FromStr ==
    ex.pc = "done" => ex.parsed = ClaimedExtension(ex.line)

(* "auth plain LOGIN" was parsed as Auth("plain LOGIN").                    *)
C18_Witness ==
    /\ ex.pc = "done"
    /\ ex.line = <<97, 117, 116, 104, 32, 112, 108, 97, 105, 110, 32, 76, 79, 71, 73, 78>>
    /\ ex.parsed = [tag |-> "Auth", a |-> <<112, 108, 97, 105, 110, 32, 76, 79, 71, 73, 78>>,
                    b |-> <<>>]

----------------------------------------------------------------------------
(* C19: from_str returns an equal value for a line and for the same line    *)
(* with the ASCII letters of its keyword in any other case, whether the     *)
(* keyword is STARTTLS, AUTH or any other.                                  *)
C19_CaseInvariant ==
    ex.pc = "done" => ex.parsed = from_str(ex.orig)

----------------------------------------------------------------------------
(* C20: for every reply that read_multiline_reply accepted and that begins  *)
(* with three ASCII digits, Reply::code() is the number those digits write, *)
(* and every ReplyLine that replies() yields carries that code.             *)
C20_ReplyCode ==
    (ReplyBuilt /\ ThreeDigits(Wire)) =>
        /\ pc = "done"
        /\ from_buffer(Region).code = WireCode(Wire)
        /\ ~replies(from_buffer(Region)).panic
        /\ Len(replies(from_buffer(Region)).items) = Len(WireLines(Wire))
        /\ \A i \in 1..Len(replies(from_buffer(Region)).items) :
               replies(from_buffer(Region)).items[i].code = WireCode(Wire)

(* ehlo read a reply of two lines with the code 550.                        *)
C20_Witness ==
    /\ cmd = "ehlo"
    /\ ReaderReturnedOk
    /\ Wire = CodeBytes(550) \o <<DASH, CR, LF>> \o CodeBytes(550) \o <<SP, CR, LF>>
    /\ from_buffer(Region).code = 550
    /\ Len(replies(from_buffer(Region)).items) = 2

----------------------------------------------------------------------------
(* C21: every Reply that read_multiline_reply returns, and with it every    *)
(* ReplyLine of read_line, has a code from 100 to 999; a line whose code    *)
(* field writes a number below 100, as '000' or '099', is not accepted.     *)
C21_CodeRange ==
    ReplyBuilt =>
        /\ from_buffer(Region).code >= 100
        /\ from_buffer(Region).code <= 999

(* C22: once a stream call of a command has returned Err(e), it is the last *)
(* stream call the command makes: the command has returned, its result is  *)
(* Error::IoError(e) with that same e, and from then on nothing more is     *)
(* read from or written to the stream and the buffer stays as it is.       *)
Failed(k) == k \in 1..Len(io) /\ io[k].k = "x"

C22_IoErrorPropagates ==
    /\ [](\A k \in 1..Len(io) :
            Failed(k) =>
                /\ k = Len(io)
                /\ pc = "done"
                /\ result.kind = "Err"
                /\ result.err = "IoError"
                /\ <<result.a>> = io[k].bytes)
    /\ [][(\E k \in 1..Len(io) : Failed(k)) /\ pc' # "idle" =>
              UNCHANGED <<io, raw, stream, buf, unprocessed>>]_vars

(* A write of send_message's headers fails after replies were read; a read  *)
(* fails in the middle of a reply.                                          *)
C22_Witness ==
    /\ pc = "done"
    /\ Failed(Len(io))
    /\ \/ /\ cmd = "send_message"
          /\ \E k \in 1..Len(io) : io[k].k = "r"
          /\ env.fault.at > 0
          /\ result = Err2("IoError", MaxErr, 0)
       \/ /\ cmd = "ehlo"
          /\ raw # <<>>
          /\ env.fault.at = 0
          /\ result = Err2("IoError", 1, 0)

(* C23: fast_quit writes exactly 'QUIT' CRLF and returns Ok without a read: *)
(* the buffer, the unprocessed range and the stream's reply bytes are as    *)
(* they were before the call.  quit writes the same 6 bytes, then reads     *)
(* one reply and nothing after it, and returns Ok exactly when that reply   *)
(* has the code 221.                                                        *)
ClaimedQuitLine == <<81, 85, 73, 84, CR, LF>>

C23_Quit ==
    /\ [][pc = "idle" /\ cmd' = "fast_quit" =>
              /\ io' = <<W(ClaimedQuitLine)>>
              /\ pc' = "done"
              /\ result' = Ok
              /\ UNCHANGED <<buf, unprocessed, raw, stream>>]_vars
    /\ [](cmd = "fast_quit" => pc = "done" /\ Len(io) = 1)
    /\ [](cmd = "quit" =>
            /\ Len(io) \in {1, 2}
            /\ io[1] = W(ClaimedQuitLine)
            /\ Len(io) = 2 => io[2].k = "r" /\ pc # "reading"
            /\ (pc = "done" /\ result = Ok) <=>
                   /\ Len(io) = 2
                   /\ WellFormedReply(io[2].bytes)
                   /\ WireCode(io[2].bytes) = 221)

(* fast_quit was called on a session whose buffer holds an earlier reply;   *)
(* quit returned Ok.                                                        *)
C23_Witness ==
    \/ cmd = "fast_quit" /\ pc = "done" /\ unprocessed.start > 0 /\ buf # Zeros(Len(buf))
    \/ cmd = "quit" /\ pc = "done" /\ result = Ok /\ Len(io) = 2

(* C24: ready() makes no write; when it returns Ok, which is when the       *)
(* greeting has the code 220, Ready::hostname() is the text of the first    *)
(* line of the greeting up to its first space, the space left out, and the  *)
(* whole text when it holds no space.                                       *)
ClaimedHostname(t) ==
    IF \A i \in 1..Len(t) : t[i] # 32 THEN t
    ELSE SubSeq(t, 1, (CHOOSE i \in 1..Len(t) : t[i] = 32 /\ \A j \in 1..(i - 1) : t[j] # 32) - 1)

C24_Hostname ==
    cmd = "ready" =>
        /\ \A k \in 1..Len(io) : io[k].k # "w"
        /\ (pc = "done" /\ result = Ok) =>
               /\ WireCode(Wire) = 220
               /\ hostname(Ready_new(from_buffer(Region))) =
                      ClaimedHostname(WireTexts(WireLines(Wire))[1])

(* The greeting is '220 a a': the hostname is 'a'.                          *)
C24_Witness ==
    /\ cmd = "ready"
    /\ pc = "done"
    /\ result = Ok
    /\ WireTexts(WireLines(Wire))[1] = <<LetterA, 32, LetterA>>
    /\ hostname(Ready_new(from_buffer(Region))) = <<LetterA>>

(* C25: what send_message writes between the 354 reply to DATA and the      *)
(* next read is, byte for byte: 'Date: ' date CRLF, 'From: ' from CRLF,     *)
(* 'Message-ID: <' id '>' CRLF, then for each of To, Cc, Bcc, Reply-To,     *)
(* Subject, In-Reply-To, References that is set, in this order, its name,   *)
(* ': ', its value and CRLF, then CRLF, then the body, if one is set, with  *)
(* a dot put before every dot that begins a line, then CRLF '.' CRLF.  Only *)
(* after these writes is the last reply read, and send_message returns Ok   *)
(* exactly when that reply has the code 250.                                *)
ClaimedHeader(name, o) == IF o = <<>> THEN <<>> ELSE name \o <<58, 32>> \o o[1] \o <<CR, LF>>

ClaimedStuffed(b) ==
    Concat([i \in 1..Len(b) |->
                IF b[i] = DOT /\ (i = 1 \/ (i >= 3 /\ b[i - 2] = CR /\ b[i - 1] = LF))
                THEN <<DOT, DOT>> ELSE <<b[i]>>])

ClaimedMessage(m) ==
    <<68, 97, 116, 101, 58, 32>> \o m.date \o <<CR, LF>>
    \o <<70, 114, 111, 109, 58, 32>> \o m.from \o <<CR, LF>>
    \o <<77, 101, 115, 115, 97, 103, 101, 45, 73, 68, 58, 32, 60>> \o m.message_id
    \o <<62, CR, LF>>
    \o ClaimedHeader(<<84, 111>>, m.to)
    \o ClaimedHeader(<<67, 99>>, m.cc)
    \o ClaimedHeader(<<66, 99, 99>>, m.bcc)
    \o ClaimedHeader(<<82, 101, 112, 108, 121, 45, 84, 111>>, m.reply_to)
    \o ClaimedHeader(<<83, 117, 98, 106, 101, 99, 116>>, m.subject)
    \o ClaimedHeader(<<73, 110, 45, 82, 101, 112, 108, 121, 45, 84, 111>>, m.in_reply_to)
    \o ClaimedHeader(<<82, 101, 102, 101, 114, 101, 110, 99, 101, 115>>, m.references)
    \o <<CR, LF>>
    \o (IF m.body = <<>> THEN <<>> ELSE ClaimedStuffed(m.body[1]))
    \o <<CR, LF, DOT, CR, LF>>

(* io[i] is the reply to DATA, with the code 354.                           *)
DataAccepted(i) ==
    /\ i \in 1..Len(io)
    /\ io[i].k = "r"
    /\ RepliesUpTo(i) = Len(args.to) + 2
    /\ WireCode(io[i].bytes) = 354

(* The index of the first read after io[i], or one past the end.            *)
NextRead(i) ==
    IF \E j \in (i + 1)..Len(io) : io[j].k = "r"
    THEN CHOOSE j \in (i + 1)..Len(io) : io[j].k = "r" /\ \A h \in (i + 1)..(j - 1) : io[h].k = "w"
    ELSE Len(io) + 1

C25_MessageOrder ==
    cmd = "send_message" =>
        /\ \A i \in 1..Len(io) :
               DataAccepted(i) =>
                   /\ Bytes(SubSeq(io, i + 1, NextRead(i) - 1)) = ClaimedMessage(args.message)
                   /\ NextRead(i) >= Len(io)
                   /\ NextRead(i) = Len(io) => pc = "done"
        /\ (pc = "done" /\ result = Ok) <=>
               /\ Len(io) >= 1
               /\ io[Len(io)].k = "r"
               /\ RepliesUpTo(Len(io)) = Len(args.to) + 3
               /\ WireCode(io[Len(io)].bytes) = 250

(* A message with every optional header but To and a body whose lines      *)
(* begin with dots was sent and accepted.                                   *)
C25_Witness ==
    /\ cmd = "send_message"
    /\ pc = "done"
    /\ result = Ok
    /\ args.message = WithHeaders(OptNames \ {"to"}, Some(StuffedBody))
    /\ \E i \in 1..Len(io) : DataAccepted(i) /\ NextRead(i) = Len(io)

(* C26: in every state of a session, after a command that failed as well,   *)
(* 0 <= unprocessed.start <= unprocessed.end <= the capacity of the         *)
(* buffer; and whenever a read_multiline_reply begins, at the start of a    *)
(* command that reads or of a later step of send_mail or send_message, the  *)
(* range is 0..0 when its first read is awaited.                            *)
ReplyBegins ==
    /\ pc' = "reading"
    /\ pc = "idle" \/ step' # step \/ rcpt' # rcpt

C26_RangeInvariant ==
    /\ [](/\ 0 <= unprocessed.start
          /\ unprocessed.start <= unprocessed.end
          /\ unprocessed.end <= Len(buf))
    /\ [][ReplyBegins => unprocessed' = [start |-> 0, end |-> 0]]_vars

(* A command failed in the middle of a line and left a range that is        *)
(* neither empty nor at 0; the next command awaits its reply with the       *)
(* range at 0..0, in a buffer that holds the bytes of the earlier one.      *)
C26_Witness ==
    \/ /\ pc = "done"
       /\ result.kind = "Err"
       /\ 0 < unprocessed.start
       /\ unprocessed.start < unprocessed.end
    \/ /\ pc = "reading"
       /\ raw = <<>>
       /\ unprocessed = [start |-> 0, end |-> 0]
       /\ buf # Zeros(Len(buf))
       /\ step = "RCPT"

(* C27: a Reply returned by read_multiline_reply borrows                    *)
(* buf[..unprocessed.start]; lines() and replies() run to their end         *)
(* without a panic, so without an index outside that region, every item     *)
(* lies inside the region after its first 4 bytes, there is one item per    *)
(* line of the reply, at least 6 bytes of the region follow every item but  *)
(* the last, and fewer than 6 follow the last, where the iteration ends.    *)
RECURSIVE ItemEnds(_)
ItemEnds(r) ==
    IF ReplyNext(r).panic \/ ~ReplyNext(r).some THEN <<>>
    ELSE <<ReplyNext(r).end>> \o ItemEnds(ReplyNext(r).reply)

InsideRegion(items, ends, n) ==
    /\ Len(ends) = Len(items)
    /\ \A k \in 1..Len(ends) :
           /\ ends[k] - Len(items[k]) >= 4
           /\ ends[k] <= n
           /\ k < Len(ends) => n - ends[k] >= 6
           /\ k = Len(ends) => n - ends[k] < 6

C27_IterationInside ==
    ReplyBuilt =>
        /\ pc = "done"
        /\ \A r \in {from_buffer(Region)} :
               /\ ~r.panic
               /\ \A l \in {lines(r)}, rp \in {replies(r)} :
                      /\ ~l.panic
                      /\ ~rp.panic
                      /\ Len(l.items) = Len(WireLines(Wire))
                      /\ Len(rp.items) = Len(WireLines(Wire))
                      /\ InsideRegion(l.items, ItemEnds(r), Len(Region))
                      /\ \A k \in 1..Len(rp.items) : rp.items[k].message = l.items[k]

(* A reply of two lines, the first with a text, was iterated.               *)
C27_Witness ==
    /\ ReaderReturnedOk
    /\ Len(lines(from_buffer(Region)).items) = 2
    /\ lines(from_buffer(Region)).items[1] = <<LetterA>>
    /\ ItemEnds(from_buffer(Region))[2] + 2 = unprocessed.start

(* C28: at every moment of the reading of a reply, a byte of the buffer     *)
(* that no longer has the value the stream read deposited lies below        *)
(* unprocessed.start and is one of the first 4 bytes of its line, the 3     *)
(* bytes of the code or the continuation marker, which the parser           *)
(* consumed before it wrote; no byte of a text, no CR or LF, and no byte    *)
(* at or after unprocessed.start is overwritten.                            *)
Overwritten == {i \in 1..Len(raw) : buf[i] # raw[i]}

(* How many bytes of raw lie before the line that holds byte i.             *)
LineBegin(i) ==
    IF \E j \in 2..(i - 1) : raw[j - 1] = CR /\ raw[j] = LF
    THEN CHOOSE j \in 2..(i - 1) :
             /\ raw[j - 1] = CR /\ raw[j] = LF
             /\ \A h \in (j + 1)..(i - 1) : ~(raw[h - 1] = CR /\ raw[h] = LF)
    ELSE 0

C28_OverwrittenWereParsed ==
    \A i \in Overwritten :
        /\ i <= unprocessed.start
        /\ i - LineBegin(i) <= 4
        /\ raw[i] # CR
        /\ raw[i] # LF

(* The header of a second line was overwritten while the reply is still     *)
(* being read.                                                              *)
C28_Witness ==
    /\ pc = "reading"
    /\ \E i \in Overwritten : LineBegin(i) > 0
    /\ unprocessed.start < unprocessed.end

(* C29: at every moment of the reading of a reply the buffer is the bytes   *)
(* the reads deposited, but for: the 2 bytes before the text of every line  *)
(* whose terminator the parser has passed, which hold the length of that    *)
(* text as a u16, low byte first; and, once the reply is returned, bytes 0  *)
(* and 1, which hold the reply code as a u16.  Every other byte, the texts, *)
(* the CRs and LFs, the first 2 bytes of every later line and the bytes     *)
(* past what was read, is as it was.                                        *)
Scanned(ls, k) == k \in 1..Len(ls) /\ WireLen(ls, k) <= unprocessed.start

ClaimedU16(n, j) == IF j = 1 THEN n % 256 ELSE n \div 256

(* Byte i is the third or the fourth byte of line k.                        *)
BeforeText(ls, k, i) == i - WireLen(ls, k - 1) \in {3, 4}

LengthByte(ls, k, i) == ClaimedU16(Len(ls[k]) - 4, i - WireLen(ls, k - 1) - 2)

ClaimedByte(ls, i) ==
    IF i > Len(raw) THEN 0
    ELSE IF ReaderReturnedOk /\ i <= 2 THEN ClaimedU16(WireCode(raw), i)
    ELSE IF \E k \in 1..Len(ls) : Scanned(ls, k) /\ BeforeText(ls, k, i)
    THEN LengthByte(ls, CHOOSE k \in 1..Len(ls) : BeforeText(ls, k, i), i)
    ELSE raw[i]

C29_Frame ==
    (pc \in {"reading", "done"} /\ (Len(raw) >= 3 => ThreeDigits(raw))) =>
        \A ls \in {WireLines(raw)} :
            \A i \in 1..Len(buf) : buf[i] = ClaimedByte(ls, i)

(* '220-a' CRLF '220 ' CRLF was read and returned.                          *)
C29_Witness ==
    /\ ReaderReturnedOk
    /\ raw = <<50, 50, 48, DASH, LetterA, CR, LF, 50, 50, 48, SP, CR, LF>>
    /\ buf = <<220, 0, 1, 0, LetterA, CR, LF, 50, 50, 0, 0, CR, LF>>

(* C30: when the future of a command is dropped while it awaits its reply,  *)
(* nothing is done about the reply that is still to come: the buffer, the   *)
(* range and the stream stay as they are.  The next command writes its own  *)
(* line, or nothing if it is ready(), and reads from the stream where the   *)
(* dropped command stopped, so the bytes of the two commands together are   *)
(* the reply to the dropped one; a complete reply found in them is checked  *)
(* against the code the next command expects: Ok with that code,           *)
(* UnexpectedCode with any other.                                           *)
ClaimedLine(c, a) ==
    CASE c = "ehlo" -> <<69, 72, 76, 79, 32>> \o a.domain \o <<CR, LF>>
      [] c = "starttls" -> <<83, 84, 65, 82, 84, 84, 76, 83, CR, LF>>
      [] c = "quit" -> <<81, 85, 73, 84, CR, LF>>
      [] OTHER -> <<>>

(* w begins a reply to the command c: complete lines 'DDD-' or 'DDD ' with  *)
(* the code c expects or 550, nothing after a line 'DDD ', and a last line  *)
(* that may be cut short.                                                   *)
ReplyPrefix(w, ls, c) ==
    \A k \in 1..Len(ls) :
        WireLen(ls, k) <= Len(w) =>
            /\ WireLineOk(ls[k])
            /\ WireCode(ls[k]) \in {ClaimedCode(c, "REPLY"), 550}
            /\ ls[k][4] = SP => WireLen(ls, k) = Len(w)

C30_NoRecovery ==
    /\ [][env'.lost # env.lost =>
              /\ pc = "reading"
              /\ pc' = "idle"
              /\ env'.lost.bytes = raw
              /\ env'.lost.cmd = cmd
              /\ UNCHANGED <<buf, unprocessed, stream>>]_vars
    /\ []((env.lost.cmd # "" /\ cmd # "") =>
            /\ \A k \in 1..Len(io) : io[k].k = "w" => k = 1 /\ cmd # "ready"
            /\ cmd # "ready" => io[1] = W(ClaimedLine(cmd, args))
            /\ ReplyPrefix(env.lost.bytes \o raw, WireLines(env.lost.bytes \o raw), env.lost.cmd)
            /\ (pc = "done" /\ WellFormedReply(Wire)) =>
                   IF WireCode(Wire) = ClaimedCode(cmd, "REPLY")
                   THEN result = Ok
                   ELSE result = UnexpectedCode(ClaimedCode(cmd, "REPLY"), WireCode(Wire)))

(* The future of ehlo was dropped after the first line of its reply;        *)
(* starttls then took the second line, '250 ', for its own reply.           *)
C30_Witness ==
    /\ env.lost = [cmd |-> "ehlo", bytes |-> <<50, 53, 48, DASH, CR, LF>>]
    /\ cmd = "starttls"
    /\ pc = "done"
    /\ Wire = <<50, 53, 48, SP, CR, LF>>
    /\ result = UnexpectedCode(220, 250)

----------------------------------------------------------------------------
(* What a command is documented to write at each of its steps, given its    *)
(* arguments alone.                                                         *)
ClaimedSteps(c, a) ==
    CASE c = "ready" -> <<<<>>>>
      [] c \in {"ehlo", "starttls", "quit", "fast_quit"} ->
            <<ClaimedLine(IF c = "fast_quit" THEN "quit" ELSE c, a)>>
      [] c = "auth" -> <<ClaimedAuthLine(a.username, a.password)>>
      [] c = "send_mail" -> ClaimedWrites(a)
      [] c = "send_message" ->
            <<ClaimedMailLine(a.from)>>
            \o [i \in 1..Len(a.to) |-> ClaimedRcptLine(a.to[i])]
            \o <<ClaimedDataLine, ClaimedMessage(a.message)>>
      [] OTHER -> <<>>

(* The steps the command has begun: one more than the replies it has read,  *)
(* unless the last reply ended it.                                          *)
StepsBegun ==
    IF cmd = "fast_quit" THEN 1
    ELSE IF pc = "done" /\ result.kind = "Err" /\ result.err = "InvalidHeader" THEN 0
    ELSE IF pc = "done" /\ (result = Ok \/ result.err = "UnexpectedCode") THEN RepliesUpTo(Len(io))
    ELSE RepliesUpTo(Len(io)) + 1

IsWrite(x) == x.k = "w"

(* C31: the session keeps no protocol state.  Whatever was called before,   *)
(* and however often, a command writes what its arguments say, step by      *)
(* step, checks each reply against the code of the step, and fails only     *)
(* for a cause of its own: a reply with another code, a header value with   *)
(* CRLF, a stream that ended or a buffer that is full.                      *)
C31_NoProtocolState ==
    (cmd # "" /\ pc \in {"reading", "done"}) =>
        /\ StepsBegun <= Len(ClaimedSteps(cmd, args))
        /\ Bytes(SelectSeq(io, IsWrite)) = Concat(SubSeq(ClaimedSteps(cmd, args), 1, StepsBegun))
        /\ \A i \in 1..Len(io) :
               (io[i].k = "r" /\ i < Len(io)) => WireCode(io[i].bytes) = ClaimedCodeAt(i)
        /\ pc = "done" =>
            /\ result = Ok <=>
                  \/ cmd = "fast_quit"
                  \/ /\ RepliesUpTo(Len(io)) = Len(ClaimedSteps(cmd, args))
                     /\ io[Len(io)].k = "r"
                     /\ WireCode(io[Len(io)].bytes) = ClaimedCodeAt(Len(io))
            /\ result # Ok =>
                  \/ /\ io # <<>>
                     /\ io[Len(io)].k = "r"
                     /\ WireCode(io[Len(io)].bytes) # ClaimedCodeAt(Len(io))
                     /\ result = UnexpectedCode(ClaimedCodeAt(Len(io)), WireCode(io[Len(io)].bytes))
                  \/ /\ cmd = "send_message"
                     /\ Offenders(args.message) # {}
                     /\ result = InvalidHeader(FirstOffender(args.message))
                  \/ /\ stream.eof \/ unprocessed.end = Len(buf)
                     /\ result = Err("UnexpectedEof")

(* auth as the first call of a session, before any ready or ehlo, wrote     *)
(* its line and got 235.                                                    *)
C31_Witness ==
    /\ env.mode = "order"
    /\ env.calls = 1
    /\ cmd = "auth"
    /\ pc = "done"
    /\ result = Ok
    /\ io[1].bytes = ClaimedAuthLine(args.username, args.password)

----------------------------------------------------------------------------
(* The bytes that had been received beyond the reply of the command before  *)
(* when this command was called.                                            *)
Surplus == env.lost.bytes

(* A command is running after a command that left surplus bytes.            *)
AfterSurplus == Early /\ cmd # "" /\ Surplus # <<>> /\ pc \in {"reading", "done"}

(* C32 as stated: no received byte is dropped between replies; the bytes    *)
(* that came with the end of the reply before are the beginning of what     *)
(* the next command's read_multiline_reply parses.                          *)
C32_NoByteDropped ==
    AfterSurplus =>
        /\ unprocessed.end = Len(Surplus) + Len(raw)
        /\ unprocessed.start > 0 =>
              Slice(Surplus \o raw, 3, unprocessed.start) = Slice(buf, 3, unprocessed.start)

(* C32, amended: read_multiline_reply begins by resetting the range to      *)
(* 0..0, so bytes received beyond the reply before are dropped: the next    *)
(* command parses only the bytes the stream delivers after it was called,   *)
(* from offset 0 of the buffer, and its reply, if it returns one, is made   *)
(* of those bytes alone.                                                    *)
C32_SurplusDropped ==
    /\ [][(pc = "idle" /\ pc' = "reading") => unprocessed' = [start |-> 0, end |-> 0]]_vars
    /\ [](AfterSurplus =>
            /\ unprocessed.end = Len(raw)
            /\ ReaderReturnedOk =>
                  /\ WellFormedReply(Wire)
                  /\ from_buffer(Region).code = WireCode(Wire))

(* The greeting came with "22" after its CRLF; starttls then received       *)
(* the rest, "0 \r\n", and failed on it.                                    *)
C32_Witness ==
    /\ AfterSurplus
    /\ Surplus = <<50, 50>>
    /\ cmd = "starttls"
    /\ pc = "done"
    /\ Len(raw) >= 4
    /\ SubSeq(raw, 1, 4) = <<48, SP, CR, LF>>
    /\ result.kind = "Err"

----------------------------------------------------------------------------
(* How many times CRLF occurs in s.                                         *)
CountCRLF(s) == Cardinality({i \in 1..Len(s) - 1 : s[i] = CR /\ s[i + 1] = LF})

(* s is one command line: its only CRLF is its last two bytes.              *)
OneLine(s) == Len(s) >= 2 /\ CountCRLF(s) = 1 /\ s[Len(s) - 1] = CR /\ s[Len(s)] = LF

(* The writes of io that carry EHLO, MAIL FROM or RCPT TO: the first of     *)
(* ehlo, and the first 1 + len(to) of send_mail and send_message.           *)
ArgumentLines ==
    LET ws == SelectSeq(io, IsWrite)
        n == IF cmd = "ehlo" THEN 1
             ELSE IF cmd \in {"send_mail", "send_message"} THEN 1 + Len(args.to)
             ELSE 0 IN
    SubSeq(ws, 1, IF Len(ws) < n THEN Len(ws) ELSE n)

(* C33: every line written for ehlo(domain), MAIL FROM:<from> and           *)
(* RCPT TO:<to> contains exactly one CRLF, as its last two bytes, whatever  *)
(* the caller passes as domain, sender and recipient.                       *)
C33_OneCommandLine ==
    \A i \in 1..Len(ArgumentLines) : OneLine(ArgumentLines[i].bytes)

----------------------------------------------------------------------------
(* read_multiline_reply on a buffer of the same capacity into which one     *)
(* read has put the bytes w.                                                *)
OneReadOf(w) ==
    read_multiline_reply(Reader(WriteAt(Zeros(Len(buf)), 0, w),
                                [start |-> 0, end |-> Len(w)], RlInit))

OneRead == OneReadOf(raw)

(* What the server may send after the bytes received so far, as far as the  *)
(* buffer has room for it.                                                  *)
MaxMore == 2
MoreBytes == {CR, LF, SP, LetterA}
More ==
    {w \in UNION {[1..n -> MoreBytes] : n \in 1..MaxMore} : Len(raw) + Len(w) <= Len(buf)}

(* C34: however the stream splits the bytes of a reply across reads, one    *)
(* byte at a time or between a CR and its LF, read_multiline_reply is       *)
(* where it would be, and returns what it would return, had one read        *)
(* delivered all of the bytes: it waits for more bytes exactly when the     *)
(* single read of the bytes received so far would leave it waiting, and     *)
(* the error or the reply it returns is the one that a single read of       *)
(* these bytes, and of these bytes with any bytes after them, gives.        *)
C34_AnySegmentation ==
    (cmd = "ready" /\ pc \in {"reading", "done"}) =>
        \A one \in {OneRead} :
            /\ pc = "reading" => one.st = "need"
            /\ pc = "done" =>
                  IF one.st = "need"
                  THEN /\ result = Err("UnexpectedEof")
                       /\ stream.eof \/ unprocessed.end = Len(buf)
                  ELSE /\ \A w \in More :
                              /\ OneReadOf(raw \o w).st = one.st
                              /\ OneReadOf(raw \o w).res = one.res
                              /\ OneReadOf(raw \o w).start = one.start
                              /\ Slice(OneReadOf(raw \o w).buf, 0, one.start)
                                     = Slice(one.buf, 0, one.start)
                       /\ IF one.st = "err"
                          THEN result = one.res
                          ELSE /\ unprocessed.start = one.start
                               /\ Region = Slice(one.buf, 0, one.start)
                               /\ result = IF from_buffer(Region).code = 220 THEN Ok
                                           ELSE UnexpectedCode(220, from_buffer(Region).code)

(* A greeting of two lines, longer than any one read, was accepted.         *)
C34_Witness ==
    /\ cmd = "ready"
    /\ pc = "done"
    /\ result = Ok
    /\ Len(WireLines(Wire)) = 2
    /\ Len(Wire) > MaxChunk
    /\ OneRead.st = "ok"

----------------------------------------------------------------------------
(* The offsets at which the end-of-data sequence CRLF '.' CRLF begins in s. *)
EndsOfData(s) == {i \in 0..Len(s) - 5 : Slice(s, i, i + 5) = <<CR, LF, DOT, CR, LF>>}

(* C35: in what send_message writes after 354 for a message whose header    *)
(* values passed the CRLF check, whatever its body, CRLF '.' CRLF occurs    *)
(* once, as the last five bytes.                                            *)
C35_OneEndOfData ==
    /\ (env.mode = "data" /\ dpc = "done") => EndsOfData(out) = {Len(out) - 5}
    /\ (env.mode = "data" /\ dpc = "refused") => Offenders(args.message) # {}

(* The last header value ends in CR, and the body is a lone '.' line: the   *)
(* body went out as "..\r\n".                                               *)
C35_Witness ==
    /\ env.mode = "data"
    /\ dpc = "done"
    /\ args.message.references = Some(<<LF, DOT, CR>>)
    /\ args.message.body = Some(<<DOT, CR, LF>>)
    /\ Slice(out, Len(out) - 11, Len(out)) = <<CR, LF, DOT, DOT, CR, LF, CR, LF, DOT, CR, LF>>

----------------------------------------------------------------------------
(* The write that send_mail makes after the 354 reply to DATA.              *)
DataWritten == SelectSeq(io, IsWrite)[Len(args.to) + 3].bytes

(* C36: in what send_mail writes after 354, the data and CRLF '.' CRLF,     *)
(* the end-of-data sequence occurs once, as the last five bytes, whatever   *)
(* the data.                                                                *)
C36_OneEndOfData ==
    (cmd = "send_mail" /\ Len(SelectSeq(io, IsWrite)) = Len(args.to) + 3) =>
        EndsOfData(DataWritten) = {Len(DataWritten) - 5}

----------------------------------------------------------------------------
(* The buffer of the run that differs from this one in the password alone:  *)
(* what the reader wrote, up to the end of the bytes it received, is the    *)
(* same, and behind it lies what auth made of the other password.           *)
BufferWith(password) ==
    [i \in 1..Len(buf) |->
        IF i <= unprocessed.end THEN buf[i]
        ELSE AuthPayload(buf, args.username, password).buf[i]]

(* C37: when auth has returned, the buffer that into_inner hands out is     *)
(* the same for any two passwords of one length, the replies being the      *)
(* same: neither the plaintext nor its base64 encoding is left in it.       *)
C37_BufferHidesPassword ==
    (cmd = "auth" /\ pc = "done") =>
        \A password \in AuthPasswords :
            Len(password) = Len(args.password) => buf = BufferWith(password)

----------------------------------------------------------------------------
(* C39: when every call of the stream's read returns, with at most as many  *)
(* bytes as the slice holds and with 0 for an empty slice or at the end of  *)
(* the stream, read_multiline_reply makes at most capacity + 1 calls of     *)
(* read and then returns Ok or Err; it does not go on reading when the      *)
(* buffer is full.                                                          *)
C39_Terminates ==
    /\ [](env.mode = "count" => env.reads <= Len(buf) + 1)
    /\ (pc = "reading" ~> (pc = "done" /\ result.kind \in {"Ok", "Err"}))

(* The server sent BufCap bytes one at a time without ending a reply, and   *)
(* the read that followed on the full buffer returned 0: BufCap + 1 reads.  *)
C39_Witness ==
    /\ env.mode = "count"
    /\ Len(buf) = BufCap
    /\ env.reads = BufCap + 1
    /\ unprocessed.end = Len(buf)
    /\ pc = "done"
    /\ result = Err("UnexpectedEof")

----------------------------------------------------------------------------
(* C38: on a buffer of any capacity and for any bytes the stream delivers,  *)
(* ready() and read_multiline_reply return Ok or Err and do not panic: no   *)
(* index of the read path is out of bounds, Reply::from_buffer does not     *)
(* reach 'Buffer too small', and nothing else in them panics.               *)
C38_ReadPathNoPanic ==
    /\ pc # "panicked"
    /\ ll.panic \notin {"from_buffer", "current_line"}

----------------------------------------------------------------------------
(* Where the text of line k of the reply begins in the region.              *)
RECURSIVE ClaimedTextOff(_, _)
ClaimedTextOff(ls, k) ==
    IF k = 1 THEN 4 ELSE ClaimedTextOff(ls, k - 1) + SegsLen(ls[k - 1]) + 6

(* The two bytes before the text of line k, read as a u16.                  *)
StoredLen(k) ==
    U16FromNeBytes(ByteAt(ll.segs, ClaimedTextOff(ll.lines, k) - 2),
                   ByteAt(ll.segs, ClaimedTextOff(ll.lines, k) - 1))

(* C40: the 16-bit length stored before the text of every line that fits    *)
(* in the buffer is the length of the text, also for texts of 65536 bytes   *)
(* or more, and lines() then yields the whole text of every line.           *)
C40_LengthHeader ==
    ll.pc \in {"reply", "ready", "refused", "end", "panicked"} =>
        /\ \A k \in 1..Len(ll.lines) : StoredLen(k) = SegsLen(ll.lines[k])
        /\ ll.panic \notin {"split_at", "next"}
        /\ \A i \in 1..Len(ll.items) :
               /\ i <= Len(ll.lines)
               /\ ll.items[i] = [off |-> ClaimedTextOff(ll.lines, i), len |-> SegsLen(ll.lines[i])]
        /\ ll.pc = "end" => Len(ll.items) = Len(ll.lines)

====
